---- MODULE Spec2Model ----
(***************************************************************************)
(* Seat reservations kept in a spreadsheet, and the reminder loop.         *)
(*                                                                         *)
(* Two variants of the bot are modelled over one state: src/bot/bot2.py    *)
(* (prog = "bot2") and src/bot3.py (prog = "bot3").  Each handler is one   *)
(* action; a handler that awaits between two store calls is split at the   *)
(* await, because the event loop runs other handlers there.                *)
(*                                                                         *)
(* Conventions.  A sheet row is a record; rows[i] is sheet row i + 1 (row  *)
(* 1 of the sheet is the header).  Times of day are minutes, dates are day *)
(* numbers, both in canonical spelling; 0 stands for an empty cell.  The   *)
(* field id is a ghost: it names the reservation a row was created for and *)
(* is never read by a handler.                                             *)
(***************************************************************************)
EXTENDS Integers, Sequences, FiniteSets, TLC

\* ---------------------------------------------------------------- bounds
\* Interactions (handler runs) in a session.
MaxOps == 5
\* Minutes the clock runs.
MaxClock == 3
\* Interactions in a session in which every handler and the reminder loop run
\* side by side.
MaxSessionOps == 3
\* Interactions in a session of typed forms: two reservation flows.
MaxFormOps == 4

Progs == {"bot2", "bot3"}
Users == {1, 2}
Seats == {"A", "B"}
Days == {1}
\* What the time form is filled with: free and taken slots, and a range with
\* start >= end.
Requests == {<<1, 2>>, <<1, 3>>, <<2, 1>>}
\* What the cancel form is filled with: the slots above and those of the sheet
\* the session starts with.
CancelRequests == Requests \cup {<<2, 3>>, <<3, 4>>}
\* Members a participant select is submitted with.
PartChoices == {{2}}

\* Minutes in a day (strptime "%H:%M" / datetime arithmetic).
DayLen == 24 * 60
\* REMINDER_MINUTES_BEFORE as configured for the run.
Lead == 1

VARIABLES
    prog,        \* which variant runs
    now,         \* the wall clock, minutes since 00:00 of day 1
    rows,        \* the sheet's data rows, in sheet order
    nextId,      \* ghost: id of the next reservation created
    ops,         \* interactions handled so far in this session
    seatViews,   \* open seat-selection views
    partViews,   \* open participant-selection views
    cancelViews, \* open cancel buttons (bot2)
    tick,        \* the reminder loop's position: the due rows still to send
    sent,        \* ghost: reminders successfully sent, per reservation
    reply,       \* what the last handler answered
    probe,       \* the arguments and results of a function applied on its own
    loopTasks,   \* live tasks of reminder_loop (tasks.Loop: is_running() iff one exists)
    header       \* row 1 of the sheet is the header row

vars == <<prog, now, rows, nextId, ops, seatViews, partViews, cancelViews, tick, sent, reply,
          probe, loopTasks, header>>

\* ---------------------------------------------------------------- helpers
Max(a, b) == IF a >= b THEN a ELSE b
Min(a, b) == IF a <= b THEN a ELSE b

Today(t) == (t \div DayLen) + 1
\* datetime.strptime(f"{day} {start}") as minutes since 00:00 of day 1
StartInstant(day, start) == (day - 1) * DayLen + start

BlankRow ==
    [id |-> 0, name |-> "", day |-> 0, start |-> 0, end |-> 0, owner |-> 0,
     parts |-> {}, created |-> 0, reminded |-> FALSE]

\* ensure_header_row, run when the session starts: a first row that is missing
\* or is not the header is (re)written, h telling whether it was there
ensure_header_row(h) == h \/ ~ h

FetchRowsFromOne(rs) == [i \in 1..Len(rs) |-> [idx |-> i, row |-> rs[i]]]
\* fetch_rows: (sheet index, row) for every data row
fetch_rows(rs) == [i \in 1..Len(rs) |-> [idx |-> i + 1, row |-> rs[i]]]

RECURSIVE Pad(_, _)
Pad(rs, n) == IF Len(rs) >= n THEN rs ELSE Pad(Append(rs, BlankRow), n)

UpdateWholeRow(rs, row_index, field, value) ==
    IF row_index < 2 THEN rs
    ELSE LET p == Pad(rs, row_index - 1)
         IN  [p EXCEPT ![row_index - 1] = [BlankRow EXCEPT ![field] = value]]
\* values().update of one cell of sheet row row_index: a row past the data is
\* created blank with only that cell set; row 1 is the header.
UpdateCell(rs, row_index, field, value) ==
    IF row_index < 2 THEN rs
    ELSE LET p == Pad(rs, row_index - 1)
         IN  [p EXCEPT ![row_index - 1] = [@ EXCEPT ![field] = value]]

MarkToggles(rs, row_index) ==
    UpdateCell(rs, row_index, "reminded",
               IF row_index >= 2 /\ row_index <= Len(rs) + 1
               THEN ~ rs[row_index - 1].reminded ELSE TRUE)
\* SheetOperations.mark_reminded / SheetClient.mark_reminded: TRUE into column I
mark_reminded(rs, row_index) == UpdateCell(rs, row_index, "reminded", TRUE)

ParticipantsResetFlag(rs, row_index, participants) ==
    UpdateCell(UpdateCell(rs, row_index, "parts", participants), row_index, "reminded", FALSE)
\* SheetOperations.update_participants / SheetClient.update_assistants: the
\* participants cell alone
update_participants(rs, row_index, participants) ==
    UpdateCell(rs, row_index, "parts", participants)

\* The sheet without its row k (k counted with the header as row 1); a row past
\* the data is empty and deleting it changes nothing.
DropSheetRow(rs, k) ==
    IF k < 2 \/ k > Len(rs) + 1 THEN rs
    ELSE SubSeq(rs, 1, k - 2) \o SubSeq(rs, k, Len(rs))

DeleteRowBelow(rs, row_index) == DropSheetRow(rs, row_index + 1)
\* deleteDimension ROWS [row_index - 1, row_index): the rows below move up
delete_row(rs, row_index) == DropSheetRow(rs, row_index)

\* The row append_row / append_reservation writes: no participants, not reminded.
NewRow(id, u, seat, day, s, e, t) ==
    [id |-> id, name |-> seat, day |-> day, start |-> s, end |-> e,
     owner |-> u, parts |-> {}, created |-> t, reminded |-> FALSE]

OverlapStrictInside(sa, ea, sb, eb) == sa < sb /\ eb < ea
\* bot3.has_overlap / bot2.overlaps on minutes
has_overlap(sa, ea, sb, eb) == Max(sa, sb) < Min(ea, eb)

ConflictsTouching(rs, day, s, e) ==
    { rs[i].name : i \in { j \in 1..Len(rs) :
          /\ rs[j].day # 0 /\ rs[j].start # 0 /\ rs[j].end # 0
          /\ rs[j].day = day
          /\ Max(s, rs[j].start) <= Min(e, rs[j].end) } }
\* bot3 SheetClient.conflicting_seat_names(day, start, end)
conflicting_seat_names(rs, day, s, e) ==
    { rs[i].name : i \in { j \in 1..Len(rs) :
          /\ rs[j].day # 0 /\ rs[j].start # 0 /\ rs[j].end # 0
          /\ rs[j].day = day
          /\ has_overlap(s, e, rs[j].start, rs[j].end) } }

\* bot2 SheetOperations.is_slot_available(channel_name, day, start, end)
is_slot_available(rs, seat, day, s, e) ==
    ~ \E j \in 1..Len(rs) :
          /\ rs[j].name # "" /\ rs[j].day # 0
          /\ rs[j].name = seat /\ rs[j].day = day
          /\ has_overlap(s, e, rs[j].start, rs[j].end)

\* The row a sheet index addresses, BlankRow when it is past the data.
RowAt(rs, row_index) ==
    IF row_index >= 2 /\ row_index <= Len(rs) + 1 THEN rs[row_index - 1] ELSE BlankRow

\* Rows of rs that overlap the slot on the same seat and day (ghost).
Conflicts(rs, seat, day, s, e) ==
    { j \in 1..Len(rs) : /\ rs[j].name = seat /\ rs[j].day = day
                         /\ Max(s, rs[j].start) < Min(e, rs[j].end) }

\* The answer of a handler.  target: the reservation the caller meant; hit, hitOwner:
\* the id and owner_id cell of the row the store call touched (0: none, or a blank
\* row); n: conflicting rows at the time of an append, matching rows at the time
\* of a cancel by key, fetches of the rows in an availability check.
Reply(op, res, caller, target, hit, hitOwner, n) ==
    [op |-> op, res |-> res, caller |-> caller, target |-> target, hit |-> hit,
     hitOwner |-> hitOwner, n |-> n]

\* The number a new view's message gets: the least one no open view of S has.
\* It tells apart two views with the same content.
FreshId(S) ==
    CHOOSE k \in 1..(Cardinality(S) + 1) :
        /\ \A w \in S : w.vid # k
        /\ \A j \in 1..(k - 1) : \E w \in S : w.vid = j

\* A seat-selection view as its constructor stores it.
SeatView(u, available, day, s, e) ==
    [vid |-> FreshId(seatViews),
     user |-> u, channels |-> available, day |-> day, start |-> s, end |-> e]

\* ---------------------------------------------------------------- initial state
\* A sheet left by earlier sessions: three reservations, no two overlapping.
Stocked ==
    << NewRow(1, 1, "A", 1, 1, 2, 0), NewRow(2, 1, "A", 1, 2, 3, 0), NewRow(3, 2, "B", 1, 3, 4, 0) >>

Ids == 1..(Len(Stocked) + MaxOps)

InitWith(store) ==
    /\ prog \in Progs
    /\ now = 0
    /\ rows = store
    /\ nextId = Len(store) + 1
    /\ ops = 0
    /\ seatViews = {}
    /\ partViews = {}
    /\ cancelViews = {}
    /\ tick = <<>>
    /\ loopTasks = 1
    /\ \E h \in BOOLEAN : header = ensure_header_row(h)
    /\ sent = [i \in Ids |-> 0]
    /\ reply = Reply("none", "none", 0, 0, 0, 0, 0)

\* No function is applied on its own while the bot runs.
NoProbe == [args |-> <<>>, out |-> <<>>]

Init == InitWith(Stocked) /\ probe = NoProbe

\* Every handler run is one more interaction of the session.
Interaction == ops < MaxOps /\ ops' = ops + 1

\* ---------------------------------------------------------------- bot/bot2.py
TimeInputModalEmptyRange(u, day, s, e) ==
    /\ prog = "bot2"
    /\ LET available == { seat \in Seats : is_slot_available(rows, seat, day, s, e) }
       IN  IF s > e
           THEN /\ reply' = Reply("check", "InvalidRange", 0, 0, 0, 0, 0)
                /\ UNCHANGED seatViews
           ELSE IF available = {}
           THEN /\ reply' = Reply("check", "NoSeat", 0, 0, 0, 0, Cardinality(Seats))
                /\ UNCHANGED seatViews
           ELSE                /\ seatViews' = seatViews \cup {SeatView(u, available, day, s, e)}
                /\ reply' = Reply("check", "ok", 0, 0, 0, 0, Cardinality(Seats))
    /\ Interaction
    /\ UNCHANGED <<probe, loopTasks, header, prog, now, rows, nextId, partViews, cancelViews, tick, sent>>
\* TimeInputModal.on_submit: validate, list the free seats, open the seat view.
\* is_slot_available is called for every voice channel of the category and
\* fetches the rows each time; the reply counts the fetches.
TimeInputModal_on_submit(u, day, s, e) ==
    /\ prog = "bot2"
    /\ LET available == { seat \in Seats : is_slot_available(rows, seat, day, s, e) }
       IN  IF s >= e
           THEN /\ reply' = Reply("check", "InvalidRange", 0, 0, 0, 0, 0)
                /\ UNCHANGED seatViews
           ELSE IF available = {}
           THEN /\ reply' = Reply("check", "NoSeat", 0, 0, 0, 0, Cardinality(Seats))
                /\ UNCHANGED seatViews
           ELSE                /\ seatViews' = seatViews \cup {SeatView(u, available, day, s, e)}
                /\ reply' = Reply("check", "ok", 0, 0, 0, 0, Cardinality(Seats))
    /\ Interaction
    /\ UNCHANGED <<probe, loopTasks, header, prog, now, rows, nextId, partViews, cancelViews, tick, sent>>

\* ChannelSelect.callback: append the row and open the participant view.  The
\* select stays on screen, so the view is not closed.  known: whether the row
\* number could be read from the store's response (0 otherwise).
ChannelSelect_callback(v, clicker, seat, known) ==
    /\ prog = "bot2"
    /\ v \in seatViews
    /\ seat \in v.channels
    /\ IF clicker # v.user
       THEN /\ reply' = Reply("reserve", "NotOwner", clicker, 0, 0, 0, 0)
            /\ UNCHANGED <<rows, nextId, partViews>>
       ELSE            /\ rows' = Append(rows, NewRow(nextId, clicker, seat, v.day, v.start, v.end, now))
            /\ nextId' = nextId + 1
            /\ partViews' = partViews \cup
                   {[row_index |-> IF known THEN Len(rows) + 2 ELSE 0,
                     owner |-> clicker, target |-> nextId, vid |-> FreshId(partViews)]}
            /\ reply' = Reply("reserve", "ok", clicker, nextId, nextId, clicker,
                              Cardinality(Conflicts(rows, seat, v.day, v.start, v.end)))
    /\ Interaction
    /\ UNCHANGED <<probe, loopTasks, header, prog, now, seatViews, cancelViews, tick, sent>>

\* ParticipantSelect.callback: owner test against the view, then the cell write
\* at the index the view was built with; row 0 is no range of the sheet.
ParticipantSelect_callback(v, clicker, participants) ==
    /\ prog = "bot2"
    /\ v \in partViews
    /\ IF clicker # v.owner
       THEN /\ reply' = Reply("parts", "NotOwner", clicker, v.target, 0, 0, 0)
            /\ UNCHANGED <<rows, partViews>>
       ELSE IF v.row_index < 1
       THEN /\ reply' = Reply("parts", "StoreRejected", clicker, v.target, 0, 0, 0)
            /\ UNCHANGED <<rows, partViews>>
       ELSE /\ rows' = update_participants(rows, v.row_index, participants)
            /\ partViews' = partViews \ {v}
            /\ reply' = Reply("parts", "ok", clicker, v.target,
                              RowAt(rows, v.row_index).id, RowAt(rows, v.row_index).owner, 0)
    /\ Interaction
    /\ header' = (header /\ ~ (clicker = v.owner /\ v.row_index = 1))
    /\ UNCHANGED <<probe, loopTasks, prog, now, nextId, seatViews, cancelViews, tick, sent>>

\* ParticipantSelectView.skip, or the view's timeout: the view closes.
ParticipantSelectView_skip(v) ==
    /\ v \in partViews
    /\ partViews' = partViews \ {v}
    /\ reply' = Reply("skip", "ok", 0, 0, 0, 0, 0)
    /\ Interaction
    /\ UNCHANGED <<probe, loopTasks, header, prog, now, rows, nextId, seatViews, cancelViews, tick, sent>>

\* A seat view times out (timeout=180).
SeatView_timeout(v) ==
    /\ v \in seatViews
    /\ seatViews' = seatViews \ {v}
    /\ reply' = Reply("timeout", "ok", 0, 0, 0, 0, 0)
    /\ Interaction
    /\ UNCHANGED <<probe, loopTasks, header, prog, now, rows, nextId, partViews, cancelViews, tick, sent>>

\* is_past_reservation(day, end): the end instant is before now
is_past_reservation(day, end) == StartInstant(day, end) < now

\* find_by_user(user_id): the user's rows, by their position in this fetch
find_by_user(rs, u) == { i \in 1..Len(rs) : rs[i].owner = u }

CancellationEmbedsFromZero(u) ==
    /\ prog = "bot2"
    /\ LET matches == { i \in find_by_user(rows, u) :
                            ~ is_past_reservation(rows[i].day, rows[i].end) }
       IN  IF matches = {}
           THEN /\ reply' = Reply("list", "NotFound", 0, 0, 0, 0, 0)
                /\ UNCHANGED cancelViews
           ELSE /\ cancelViews' = cancelViews \cup
                       { [vid |-> FreshId(cancelViews), user |-> u, row_index |-> i, target |-> rows[i].id] : i \in matches }
                /\ reply' = Reply("list", "ok", 0, 0, 0, 0, 0)
    /\ Interaction
    /\ UNCHANGED <<probe, loopTasks, header, prog, now, rows, nextId, seatViews, partViews, tick, sent>>
\* send_cancellation_embeds: one cancel button per current reservation of the
\* user, each holding the row index of this fetch.
send_cancellation_embeds(u) ==
    /\ prog = "bot2"
    /\ LET matches == { i \in find_by_user(rows, u) :
                            ~ is_past_reservation(rows[i].day, rows[i].end) }
       IN  IF matches = {}
           THEN /\ reply' = Reply("list", "NotFound", 0, 0, 0, 0, 0)
                /\ UNCHANGED cancelViews
           ELSE /\ cancelViews' = cancelViews \cup
                       { [vid |-> FreshId(cancelViews), user |-> u, row_index |-> i + 1, target |-> rows[i].id] : i \in matches }
                /\ reply' = Reply("list", "ok", 0, 0, 0, 0, 0)
    /\ Interaction
    /\ UNCHANGED <<probe, loopTasks, header, prog, now, rows, nextId, seatViews, partViews, tick, sent>>

\* CancelButtonView.do_cancel: delete the row at the index the button holds; the
\* button is shown to the user who asked for the list.
do_cancel(v) ==
    /\ prog = "bot2"
    /\ v \in cancelViews
    /\ rows' = delete_row(rows, v.row_index)
    /\ cancelViews' = cancelViews \ {v}
    /\ reply' = Reply("cancel", "ok", v.user, v.target,
                      RowAt(rows, v.row_index).id, RowAt(rows, v.row_index).owner, 0)
    /\ Interaction
    /\ header' = (header /\ v.row_index # 1)
    /\ UNCHANGED <<probe, loopTasks, prog, now, nextId, seatViews, partViews, tick, sent>>

\* A cancel button times out (timeout=120).
CancelButtonView_timeout(v) ==
    /\ v \in cancelViews
    /\ cancelViews' = cancelViews \ {v}
    /\ reply' = Reply("timeout", "ok", 0, 0, 0, 0, 0)
    /\ Interaction
    /\ UNCHANGED <<probe, loopTasks, header, prog, now, rows, nextId, seatViews, partViews, tick, sent>>

\* ---------------------------------------------------------------- bot3.py
ReservationModalNoCheck(u, day, s, e) ==
    /\ prog = "bot3"
    /\ IF s >= e
       THEN /\ reply' = Reply("check", "InvalidRange", 0, 0, 0, 0, 0)
            /\ UNCHANGED seatViews
       ELSE /\ seatViews' = seatViews \cup {SeatView(u, Seats, day, s, e)}
            /\ reply' = Reply("check", "ok", 0, 0, 0, 0, 1)
    /\ Interaction
    /\ UNCHANGED <<probe, loopTasks, header, prog, now, rows, nextId, partViews, cancelViews, tick, sent>>
\* ReservationModal.on_submit: validate, drop the seats with a conflict, open
\* the seat view.  conflicting_seat_names fetches the rows once; the reply
\* counts the fetches.
ReservationModal_on_submit(u, day, s, e) ==
    /\ prog = "bot3"
    /\ LET conflicts == conflicting_seat_names(rows, day, s, e)
           available_channels == { seat \in Seats : seat \notin conflicts }
       IN  IF s >= e
           THEN /\ reply' = Reply("check", "InvalidRange", 0, 0, 0, 0, 0)
                /\ UNCHANGED seatViews
           ELSE IF available_channels = {}
           THEN /\ reply' = Reply("check", "NoSeat", 0, 0, 0, 0, 1)
                /\ UNCHANGED seatViews
           ELSE                /\ seatViews' = seatViews \cup {SeatView(u, available_channels, day, s, e)}
                /\ reply' = Reply("check", "ok", 0, 0, 0, 0, 1)
    /\ Interaction
    /\ UNCHANGED <<probe, loopTasks, header, prog, now, rows, nextId, partViews, cancelViews, tick, sent>>

\* ReservationSeatSelect.callback: append the row; the message's view becomes
\* the participant prompt for the new row.
ReservationSeatSelect_callback(v, clicker, seat, known) ==
    /\ prog = "bot3"
    /\ v \in seatViews
    /\ seat \in v.channels
    /\ IF clicker # v.user
       THEN /\ reply' = Reply("reserve", "NotOwner", clicker, 0, 0, 0, 0)
            /\ UNCHANGED <<rows, nextId, partViews, seatViews>>
       ELSE            /\ rows' = Append(rows, NewRow(nextId, clicker, seat, v.day, v.start, v.end, now))
            /\ nextId' = nextId + 1
            /\ seatViews' = seatViews \ {v}
            /\ partViews' = partViews \cup
                   {[row_index |-> IF known THEN Len(rows) + 2 ELSE 0,
                     owner |-> clicker, target |-> nextId, vid |-> FreshId(partViews)]}
            /\ reply' = Reply("reserve", "ok", clicker, nextId, nextId, clicker,
                              Cardinality(Conflicts(rows, seat, v.day, v.start, v.end)))
    /\ Interaction
    /\ UNCHANGED <<probe, loopTasks, header, prog, now, cancelViews, tick, sent>>

\* AssistantSelect.callback (behind AssistantPromptView.add_assistants): owner
\* test against the view, then the cell write; the select stays open.
AssistantSelect_callback(v, clicker, assistant_ids) ==
    /\ prog = "bot3"
    /\ v \in partViews
    /\ assistant_ids # {}
    /\ IF clicker # v.owner
       THEN /\ reply' = Reply("parts", "NotOwner", clicker, v.target, 0, 0, 0)
            /\ UNCHANGED rows
       ELSE IF v.row_index < 1
       THEN /\ reply' = Reply("parts", "StoreRejected", clicker, v.target, 0, 0, 0)
            /\ UNCHANGED rows
       ELSE /\ rows' = update_participants(rows, v.row_index, assistant_ids)
            /\ reply' = Reply("parts", "ok", clicker, v.target,
                              RowAt(rows, v.row_index).id, RowAt(rows, v.row_index).owner, 0)
    /\ Interaction
    /\ header' = (header /\ ~ (clicker = v.owner /\ v.row_index = 1))
    /\ UNCHANGED <<probe, loopTasks, prog, now, nextId, seatViews, partViews, cancelViews, tick, sent>>

MatchingRowsAnyEnd(rs, u, seat, day, s, e) ==
    { i \in 1..Len(rs) : /\ rs[i].owner = u /\ rs[i].name = seat /\ rs[i].day = day
                         /\ rs[i].start = s }
\* Positions (in rs) of the rows whose key equals the request.
MatchingRows(rs, u, seat, day, s, e) ==
    { i \in 1..Len(rs) : /\ rs[i].owner = u /\ rs[i].name = seat /\ rs[i].day = day
                         /\ rs[i].start = s /\ rs[i].end = e }

SetMin(S) == CHOOSE x \in S : \A y \in S : x <= y

FindLastMatch(rs, u, seat, day, s, e) ==
    LET m == MatchingRows(rs, u, seat, day, s, e)
    IN  IF m = {} THEN 0 ELSE (CHOOSE x \in m : \A y \in m : y <= x) + 1
\* SheetClient.find_matching_row: sheet index of the first row with the key,
\* 0 (None) when there is none
find_matching_row(rs, u, seat, day, s, e) ==
    LET m == MatchingRows(rs, u, seat, day, s, e)
    IN  IF m = {} THEN 0 ELSE SetMin(m) + 1

\* CancelReservationModal.on_submit: resolve the row by key and delete it, with
\* no await in between.
CancelReservationModal_on_submit(u, seat, day, s, e) ==
    /\ prog = "bot3"
    /\ LET row_index == find_matching_row(rows, u, seat, day, s, e)
       IN  IF row_index = 0
           THEN /\ reply' = Reply("cancel", "NotFound", u, 0, 0, 0, 0)
                /\ UNCHANGED rows
           ELSE /\ rows' = delete_row(rows, row_index)
                /\ reply' = Reply("cancel", "ok", u, RowAt(rows, row_index).id,
                                  RowAt(rows, row_index).id, RowAt(rows, row_index).owner,
                                  Cardinality(MatchingRows(rows, u, seat, day, s, e)))
    /\ Interaction
    /\ header' = (header /\ find_matching_row(rows, u, seat, day, s, e) # 1)
    /\ UNCHANGED <<probe, loopTasks, prog, now, nextId, seatViews, partViews, cancelViews, tick, sent>>

\* ---------------------------------------------------------------- reminder loop
DueBot2Early(row, t, lead) ==
    /\ ~ row.reminded
    /\ row.day = Today(t)
    /\ StartInstant(row.day, row.start) - t >= 0
    /\ StartInstant(row.day, row.start) - t <= lead + 1
\* bot/bot2.py reminder_loop: the tests a fetched row passes at time t (today's
\* date, start within the lead window)
DueBot2(row, t, lead) ==
    /\ ~ row.reminded
    /\ row.day # 0 /\ row.start # 0
    /\ row.day = Today(t)
    /\ StartInstant(row.day, row.start) - t >= 0
    /\ StartInstant(row.day, row.start) - t <= lead

\* bot3.py reminder_loop: the reminder minute equals the current minute, and
\* the seat is a voice channel of the category
DueBot3(row, t, lead) ==
    /\ ~ row.reminded
    /\ row.day # 0 /\ row.start # 0
    /\ StartInstant(row.day, row.start) - lead = t
    /\ (Seats # {} => row.name \in Seats)

QueueOf(ps) == [i \in 1..Len(ps) |-> [idx |-> ps[i].idx, id |-> ps[i].row.id]]

\* One run of reminder_loop up to its first await on channel.send, with
\* REMINDER_MINUTES_BEFORE = lead and the clock running until `until`: a minute
\* has passed since the last run; the due rows of this fetch are queued.
reminder_tick(lead, until) ==
    /\ loopTasks > 0
    /\ tick = <<>>
    /\ now < until
    /\ now' = now + 1
    /\ LET due(p) == IF prog = "bot2" THEN DueBot2(p.row, now', lead)
                     ELSE DueBot3(p.row, now', lead)
       IN  tick' = IF lead <= 0 THEN <<>> ELSE QueueOf(SelectSeq(fetch_rows(rows), due))
    /\ reply' = Reply("tick", "ok", 0, 0, 0, 0, 0)
    /\ UNCHANGED <<probe, loopTasks, header, prog, rows, nextId, ops, seatViews, partViews, cancelViews, sent>>

reminder_loop == reminder_tick(Lead, MaxClock)

\* channel.send returns (ok) or raises HTTPException; after a send that
\* succeeded, mark_reminded with the index of the fetch, then the next row.
reminder_send_done(ok) ==
    /\ tick # <<>>
    /\ tick' = Tail(tick)
    /\ IF ok
       THEN /\ sent' = [sent EXCEPT ![tick[1].id] = @ + 1]
            /\ rows' = mark_reminded(rows, tick[1].idx)
            /\ reply' = Reply("remind", "ok", 0, tick[1].id, RowAt(rows, tick[1].idx).id, 0, 0)
       ELSE /\ reply' = Reply("remind", "SendFailed", 0, tick[1].id, 0, 0, 0)
            /\ UNCHANGED <<rows, sent>>
    /\ header' = (header /\ ~ (ok /\ tick[1].idx = 1))
    /\ UNCHANGED <<probe, loopTasks, prog, now, nextId, ops, seatViews, partViews, cancelViews>>

\* channel.send returned and mark_reminded raises (the store's HttpError): the
\* loop body catches HTTPException of the gateway only, the exception leaves
\* it with the rest of the queue unsent, and tasks.Loop ends its task.
reminder_mark_failed ==
    /\ tick # <<>>
    /\ tick' = <<>>
    /\ loopTasks' = loopTasks - 1
    /\ sent' = [sent EXCEPT ![tick[1].id] = @ + 1]
    /\ reply' = Reply("remind", "StoreFailed", 0, tick[1].id, 0, 0, 0)
    /\ UNCHANGED <<probe, header, prog, now, rows, nextId, ops, seatViews, partViews, cancelViews>>

OnReadyUnguarded(synced) ==
    /\ ops < MaxOps
    /\ ops' = ops + 1
    /\ loopTasks' = IF synced THEN loopTasks + 1 ELSE loopTasks
    /\ reply' = Reply("ready", IF synced THEN "Started" ELSE "SyncFailed", 0, 0, 0, 0, 0)
    /\ UNCHANGED <<probe, header, prog, now, rows, nextId, seatViews, partViews, cancelViews, tick, sent>>
\* on_ready: the command sync returns (synced) or raises, which skips the rest
\* of the handler; then `if not reminder_loop.is_running(): reminder_loop.start()`
\* with no await between the test and the start.
on_ready(synced) ==
    /\ ops < MaxOps
    /\ ops' = ops + 1
    /\ loopTasks' = IF synced /\ loopTasks = 0 THEN loopTasks + 1 ELSE loopTasks
    /\ reply' = Reply("ready",
                      IF ~ synced THEN "SyncFailed"
                      ELSE IF loopTasks = 0 THEN "Started" ELSE "AlreadyRunning",
                      0, 0, 0, 0, 0)
    /\ UNCHANGED <<probe, header, prog, now, rows, nextId, seatViews, partViews, cancelViews, tick, sent>>

\* ---------------------------------------------------------------- specification
Reserving ==
    \/ \E u \in Users, day \in Days, r \in Requests :
           \/ TimeInputModal_on_submit(u, day, r[1], r[2])
           \/ ReservationModal_on_submit(u, day, r[1], r[2])
    \/ \E v \in seatViews, clicker \in Users, seat \in Seats, known \in BOOLEAN :
           \/ ChannelSelect_callback(v, clicker, seat, known)
           \/ ReservationSeatSelect_callback(v, clicker, seat, known)
    \/ \E v \in seatViews : SeatView_timeout(v)

Participating ==
    \/ \E v \in partViews, clicker \in Users, ps \in PartChoices :
           \/ ParticipantSelect_callback(v, clicker, ps)
           \/ AssistantSelect_callback(v, clicker, ps)
    \/ \E v \in partViews : ParticipantSelectView_skip(v)

Cancelling ==
    \/ \E u \in Users : send_cancellation_embeds(u)
    \/ \E v \in cancelViews : do_cancel(v)
    \/ \E v \in cancelViews : CancelButtonView_timeout(v)
    \/ \E u \in Users, seat \in Seats, day \in Days, r \in CancelRequests :
           CancelReservationModal_on_submit(u, seat, day, r[1], r[2])

Reminding ==
    \/ reminder_loop
    \/ \E ok \in BOOLEAN : reminder_send_done(ok)
    \/ reminder_mark_failed

Next == Reserving \/ Participating \/ Cancelling \/ Reminding

Spec == Init /\ [][Next]_vars

\* The whole bot over the last MaxSessionOps interactions of a session.
InitSession ==
    /\ prog \in Progs
    /\ now = 0
    /\ rows = Stocked
    /\ nextId = Len(Stocked) + 1
    /\ ops = MaxOps - MaxSessionOps
    /\ seatViews = {}
    /\ partViews = {}
    /\ cancelViews = {}
    /\ tick = <<>>
    /\ loopTasks = 1
    /\ \E h \in BOOLEAN : header = ensure_header_row(h)
    /\ sent = [i \in Ids |-> 0]
    /\ reply = Reply("none", "none", 0, 0, 0, 0, 0)
    /\ probe = NoProbe

SpecSession == InitSession /\ [][Next]_vars

\* The booking handlers alone: the clock stands still.
NextBooking == Reserving \/ Participating \/ Cancelling

SpecBooking == Init /\ [][NextBooking]_vars

\* The reminder loop next to cancellations.
NextReminder == Cancelling \/ Reminding

SpecReminder == Init /\ [][NextReminder]_vars

\* The reminder loop next to cancellations on a sheet whose last row was booked
\* for an earlier slot than the rows above it (rows are in booking order).
StockedLate == Append(Stocked, NewRow(Len(Stocked) + 1, 2, "B", 1, 1, 2, 0))

InitLate ==
    /\ prog \in Progs
    /\ now = 0
    /\ rows = StockedLate
    /\ nextId = Len(StockedLate) + 1
    /\ ops = MaxOps - MaxSessionOps
    /\ seatViews = {}
    /\ partViews = {}
    /\ cancelViews = {}
    /\ tick = <<>>
    /\ loopTasks = 1
    /\ \E h \in BOOLEAN : header = ensure_header_row(h)
    /\ sent = [i \in Ids |-> 0]
    /\ reply = Reply("none", "none", 0, 0, 0, 0, 0)
    /\ probe = NoProbe

SpecLate == InitLate /\ [][NextReminder]_vars

\* The same with a gateway that never fails: every channel.send returns.
NextNoFail == Cancelling \/ reminder_loop \/ reminder_send_done(TRUE)

SpecNoFail == Init /\ [][NextNoFail]_vars

\* The reminder loop from the start of the process: no task of the loop exists
\* until the first on_ready, and the gateway repeats on_ready after reconnects.
InitLoop ==
    /\ prog \in Progs
    /\ now = 0
    /\ rows = Stocked
    /\ nextId = Len(Stocked) + 1
    /\ ops = 0
    /\ seatViews = {}
    /\ partViews = {}
    /\ cancelViews = {}
    /\ tick = <<>>
    /\ loopTasks = 0
    /\ \E h \in BOOLEAN : header = ensure_header_row(h)
    /\ sent = [i \in Ids |-> 0]
    /\ reply = Reply("none", "none", 0, 0, 0, 0, 0)
    /\ probe = NoProbe

NextLoop == (\E synced \in BOOLEAN : on_ready(synced)) \/ Reminding

SpecLoop == InitLoop /\ [][NextLoop]_vars

\* ---------------------------------------------------------------- overlap tests
\* Times of day as the forms and the sheet spell them, <<hours, minutes>> for
\* "HH:MM"; the cases are equal, abutting, nested and disjoint ranges, within
\* one hour and across it.
TimesOfDay == {<<9, 0>>, <<9, 30>>, <<9, 59>>, <<10, 0>>, <<10, 30>>}

\* bot3 time_to_minutes: hours * 60 + minutes
time_to_minutes(text) == text[1] * 60 + text[2]

\* bot2 parse_time gives a datetime.time; these are its order, max and min
TimeLess(a, b) == a[1] < b[1] \/ (a[1] = b[1] /\ a[2] < b[2])
TimeMax(a, b) == IF TimeLess(a, b) THEN b ELSE a
TimeMin(a, b) == IF TimeLess(a, b) THEN a ELSE b

OverlapsClosed(start_a, end_a, start_b, end_b) ==
    ~ TimeLess(TimeMin(end_a, end_b), TimeMax(start_a, start_b))
\* bot2 overlaps(start_a, end_a, start_b, end_b) on the parsed times
overlaps(start_a, end_a, start_b, end_b) ==
    TimeLess(TimeMax(start_a, start_b), TimeMin(end_a, end_b))

\* bot1 ReservationModal.is_slot_available, the test inside its loop
bot1_overlap(new_start, new_end, r_start, r_end) ==
    TimeLess(new_start, r_end) /\ TimeLess(r_start, new_end)

\* Two well-formed ranges are handed to the three tests.
InitOverlap ==
    /\ InitWith(Stocked)
    /\ probe \in { [args |-> <<sa, ea, sb, eb>>, out |-> <<>>] :
                      sa \in TimesOfDay, ea \in TimesOfDay, sb \in TimesOfDay, eb \in TimesOfDay }
    /\ TimeLess(probe.args[1], probe.args[2])
    /\ TimeLess(probe.args[3], probe.args[4])

ApplyOverlap ==
    /\ probe.out = <<>>
    /\ LET sa == probe.args[1]
           ea == probe.args[2]
           sb == probe.args[3]
           eb == probe.args[4]
       IN  probe' = [probe EXCEPT !.out =
               << has_overlap(time_to_minutes(sa), time_to_minutes(ea),
                              time_to_minutes(sb), time_to_minutes(eb)),
                  overlaps(sa, ea, sb, eb),
                  bot1_overlap(sa, ea, sb, eb) >>]
    /\ UNCHANGED <<prog, now, rows, nextId, ops, seatViews, partViews, cancelViews, tick, sent,
                   reply, loopTasks, header>>

SpecOverlap == InitOverlap /\ [][ApplyOverlap]_vars

\* ---------------------------------------------------------------- availability
\* Slots and dates of the rows a sheet under test holds.
StoredSlots == {<<1, 2>>, <<2, 3>>, <<1, 3>>, <<3, 4>>}
StoredDays == {1, 2}

\* Rows found in a sheet: reservations of any seat, slot and date, and a row
\* that has only its reminded cell set.
SampleRows(id) ==
    { NewRow(id, 1, seat, day, r[1], r[2], 0) : seat \in Seats, day \in StoredDays, r \in StoredSlots }
        \cup {[BlankRow EXCEPT !.reminded = TRUE]}

\* Sheets of up to two rows.
SampleStores ==
    {<<>>} \cup { <<a>> : a \in SampleRows(1) }
           \cup { <<a, b>> : a \in SampleRows(1), b \in SampleRows(2) }

InitAvail ==
    /\ \E store \in SampleStores : InitWith(store)
    /\ probe = NoProbe

\* One time form is submitted against the sheet.
NextAvail ==
    \/ \E u \in Users, day \in Days, r \in CancelRequests :
           reply.op = "none" /\ TimeInputModal_on_submit(u, day, r[1], r[2])
    \/ \E u \in Users, day \in Days, r \in CancelRequests :
           reply.op = "none" /\ ReservationModal_on_submit(u, day, r[1], r[2])

SpecAvail == InitAvail /\ [][NextAvail]_vars

\* ---------------------------------------------------------------- reminder scenario
\* The default of REMINDER_MINUTES_BEFORE in bot/bot2.py.
LeadDefault == 15
\* 13:00, the start of the reservation of the scenario.
ScenarioStart == 13 * 60

\* At some minute between 12:40 and 12:50 the sheet holds one reservation for
\* 13:00 today, notified already or not.
InitScenario ==
    /\ prog \in Progs
    /\ now \in (ScenarioStart - 20)..(ScenarioStart - 10)
    /\ \E flag \in BOOLEAN :
           rows = <<[NewRow(1, 1, "A", 1, ScenarioStart, ScenarioStart + 60, 0)
                        EXCEPT !.reminded = flag]>>
    /\ nextId = 2
    /\ ops = 0
    /\ seatViews = {}
    /\ partViews = {}
    /\ cancelViews = {}
    /\ tick = <<>>
    /\ loopTasks = 1
    /\ \E h \in BOOLEAN : header = ensure_header_row(h)
    /\ sent = [i \in Ids |-> 0]
    /\ reply = Reply("none", "none", 0, 0, 0, 0, 0)
    /\ probe = NoProbe

\* The loop ticks every minute until 12:51 with a lead of 15 minutes.
NextScenario ==
    \/ reminder_tick(LeadDefault, ScenarioStart - 9)
    \/ \E ok \in BOOLEAN : reminder_send_done(ok)

SpecScenario == InitScenario /\ [][NextScenario]_vars

\* ---------------------------------------------------------------- configuration
\* What the environment holds for REMINDER_MINUTES_BEFORE: <<>> when the variable
\* is unset (or is not a number: both read as None), <<n>> when it spells n.
EnvValues == {<<>>, <<-1>>, <<0>>, <<1>>}

\* _read_int / read_int_env: None for an unset variable, else the integer
read_int(env) == env

\* Python's `x or d`: d when x is None or 0, else x
PyOr(x, d) == IF x = <<>> THEN d ELSE IF x[1] = 0 THEN d ELSE x[1]

\* The module-level REMINDER_MINUTES_BEFORE of each program
REMINDER_MINUTES_BEFORE(p, env) ==
    IF p = "bot2" THEN PyOr(read_int(env), LeadDefault) ELSE PyOr(read_int(env), 0)

\* The process starts with some value in the environment.
InitConfig ==
    /\ InitWith(Stocked)
    /\ probe \in { [args |-> <<env>>, out |-> <<>>] : env \in EnvValues }

\* The module is imported: the configured value becomes the value the loop tests.
load_config ==
    /\ probe.out = <<>>
    /\ probe' = [probe EXCEPT !.out = <<REMINDER_MINUTES_BEFORE(prog, probe.args[1])>>]
    /\ UNCHANGED <<prog, now, rows, nextId, ops, seatViews, partViews, cancelViews, tick, sent,
                   reply, loopTasks, header>>

\* reminder_loop with the loaded value
configured_loop ==
    /\ probe.out # <<>>
    /\ reminder_tick(probe.out[1], MaxClock)

NextConfig ==
    \/ load_config
    \/ configured_loop
    \/ \E ok \in BOOLEAN : reminder_send_done(ok)
    \/ reminder_mark_failed

SpecConfig == InitConfig /\ [][NextConfig]_vars

\* ---------------------------------------------------------------- text of the forms
\* A text is a sequence of one-character strings.  ValueError is what a parser
\* that raises gives; no text equals it.
ValueError == <<"ValueError">>

DigitChars == <<"0", "1", "2", "3", "4", "5", "6", "7", "8", "9">>
IsDigit(c) == \E n \in 1..10 : DigitChars[n] = c
DigitVal(c) == (CHOOSE n \in 1..10 : DigitChars[n] = c) - 1
\* The character at position i, "" past the end
At(s, i) == IF i \in 1..Len(s) THEN s[i] ELSE ""

\* str.strip() of blanks
RECURSIVE strip(_)
strip(s) ==
    IF s = <<>> THEN s
    ELSE IF s[1] = " " THEN strip(Tail(s))
    ELSE IF s[Len(s)] = " " THEN strip(SubSeq(s, 1, Len(s) - 1))
    ELSE s

\* The alternatives of a strptime directive that match at position i, as their
\* lengths in the order the regular expression tries them.
\* %H: 2[0-3] | [0-1]\d | \d
HourLens(s, i) ==
    (IF At(s, i) = "2" /\ At(s, i + 1) \in {"0", "1", "2", "3"} THEN <<2>> ELSE <<>>)
        \o (IF At(s, i) \in {"0", "1"} /\ IsDigit(At(s, i + 1)) THEN <<2>> ELSE <<>>)
        \o (IF IsDigit(At(s, i)) THEN <<1>> ELSE <<>>)
\* %M: [0-5]\d | \d
MinuteLens(s, i) ==
    (IF At(s, i) \in {"0", "1", "2", "3", "4", "5"} /\ IsDigit(At(s, i + 1)) THEN <<2>> ELSE <<>>)
        \o (IF IsDigit(At(s, i)) THEN <<1>> ELSE <<>>)
\* %m: 1[0-2] | 0[1-9] | [1-9]
MonthLens(s, i) ==
    (IF At(s, i) = "1" /\ At(s, i + 1) \in {"0", "1", "2"} THEN <<2>> ELSE <<>>)
        \o (IF At(s, i) = "0" /\ IsDigit(At(s, i + 1)) /\ At(s, i + 1) # "0" THEN <<2>> ELSE <<>>)
        \o (IF IsDigit(At(s, i)) /\ At(s, i) # "0" THEN <<1>> ELSE <<>>)
\* %d: 3[0-1] | [1-2]\d | 0[1-9] | [1-9] | " "[1-9]
DayLens(s, i) ==
    (IF At(s, i) = "3" /\ At(s, i + 1) \in {"0", "1"} THEN <<2>> ELSE <<>>)
        \o (IF At(s, i) \in {"1", "2"} /\ IsDigit(At(s, i + 1)) THEN <<2>> ELSE <<>>)
        \o (IF At(s, i) = "0" /\ IsDigit(At(s, i + 1)) /\ At(s, i + 1) # "0" THEN <<2>> ELSE <<>>)
        \o (IF IsDigit(At(s, i)) /\ At(s, i) # "0" THEN <<1>> ELSE <<>>)
        \o (IF At(s, i) = " " /\ IsDigit(At(s, i + 1)) /\ At(s, i + 1) # "0" THEN <<2>> ELSE <<>>)

\* The number the len characters from position i spell
NumAt(s, i, len) ==
    IF len = 1 THEN DigitVal(s[i])
    ELSE IF s[i] = " " THEN DigitVal(s[i + 1])
    ELSE 10 * DigitVal(s[i]) + DigitVal(s[i + 1])

\* datetime.strptime(s, "%H:%M") (sep = ":") and "%H%M" (sep = ""): the first
\* alternative of %H after which the rest of the pattern matches, the first
\* alternative of %M there; data left over is a ValueError.  The result is
\* <<hours, minutes>>.
strptime_time(s, sep) ==
    LET seplen == IF sep = "" THEN 0 ELSE 1
        hs == SelectSeq(HourLens(s, 1),
                  LAMBDA hl : /\ (sep = "" \/ At(s, 1 + hl) = sep)
                              /\ MinuteLens(s, 1 + hl + seplen) # <<>>)
    IN  IF hs = <<>> THEN ValueError
        ELSE LET hl == hs[1]
                 mi == 1 + hl + seplen
                 ml == MinuteLens(s, mi)[1]
             IN  IF mi + ml # Len(s) + 1 THEN ValueError
                 ELSE <<NumAt(s, 1, hl), NumAt(s, mi, ml)>>

TwoDigits(n) == <<DigitChars[(n \div 10) + 1], DigitChars[(n % 10) + 1]>>

\* strftime("%H:%M")
strftime_time(t) == TwoDigits(t[1]) \o <<":">> \o TwoDigits(t[2])

\* bot3 normalize_time
normalize_time(text) ==
    LET value == strip(text)
    IN  IF strptime_time(value, ":") # ValueError
        THEN strftime_time(strptime_time(value, ":"))
        ELSE IF strptime_time(value, "") # ValueError
        THEN strftime_time(strptime_time(value, ""))
        ELSE ValueError

\* bot2 parse_time: strptime "%H:%M", no strip
parse_time(text) == strptime_time(text, ":")

\* Days of a month of the proleptic Gregorian calendar
DaysInMonth(y, m) ==
    IF m = 2 THEN (IF (y % 4 = 0 /\ y % 100 # 0) \/ y % 400 = 0 THEN 29 ELSE 28)
    ELSE IF m \in {4, 6, 9, 11} THEN 30 ELSE 31

\* datetime.strptime(s, "%Y/%m/%d") (sep = "/") and "%Y-%m-%d" (sep = "-"):
\* <<year, month, day>>, or ValueError when the pattern does not match, data
\* is left over, or the day is not in the calendar.
strptime_date(s, sep) ==
    IF ~ (\A i \in 1..4 : IsDigit(At(s, i))) \/ At(s, 5) # sep THEN ValueError
    ELSE LET ms == SelectSeq(MonthLens(s, 6),
                       LAMBDA ml : At(s, 6 + ml) = sep /\ DayLens(s, 7 + ml) # <<>>)
         IN  IF ms = <<>> THEN ValueError
             ELSE LET ml == ms[1]
                      di == 7 + ml
                      dl == DayLens(s, di)[1]
                      y == 1000 * DigitVal(s[1]) + 100 * DigitVal(s[2])
                               + 10 * DigitVal(s[3]) + DigitVal(s[4])
                      m == NumAt(s, 6, ml)
                      d == NumAt(s, di, dl)
                  IN  IF di + dl # Len(s) + 1 \/ y < 1 \/ d > DaysInMonth(y, m)
                      THEN ValueError
                      ELSE <<y, m, d>>

\* strftime("%Y/%m/%d")
strftime_date(v) ==
    TwoDigits(v[1] \div 100) \o TwoDigits(v[1] % 100) \o <<"/">> \o TwoDigits(v[2])
        \o <<"/">> \o TwoDigits(v[3])

\* bot3 normalize_date
normalize_date(text) ==
    LET value == strip(text)
    IN  IF strptime_date(value, "/") # ValueError
        THEN strftime_date(strptime_date(value, "/"))
        ELSE IF strptime_date(value, "-") # ValueError
        THEN strftime_date(strptime_date(value, "-"))
        ELSE ValueError

\* Date fields as users type them: both spellings, without leading zeros, with
\* blanks, with wrong or mixed separators, days that are in no calendar.
DateTexts ==
    { <<"2", "0", "2", "5", "/", "0", "1", "/", "0", "5">>,
      <<"2", "0", "2", "5", "-", "0", "1", "-", "0", "5">>,
      <<"2", "0", "2", "5", "/", "1", "/", "5">>,
      <<"2", "0", "2", "5", "-", "1", "-", "5">>,
      <<"2", "0", "2", "5", "/", "0", "1", "/", "0", "6">>,
      <<"2", "0", "2", "5", "-", "0", "1", "-", "0", "6">>,
      <<"2", "0", "2", "5", "/", "1", "/", " ", "5">>,
      <<" ", "2", "0", "2", "5", "/", "0", "1", "/", "0", "5">>,
      <<"2", "0", "2", "5", "/", "0", "1", "-", "0", "5">>,
      <<"2", "0", "2", "5", ".", "0", "1", ".", "0", "5">>,
      <<"2", "0", "2", "5", "/", "0", "2", "/", "3", "0">>,
      <<"2", "0", "2", "5", "/", "1", "3", "/", "0", "1">>,
      <<"2", "0", "2", "5", "0", "1", "0", "5">>,
      <<"2", "0", "2", "4", "/", "0", "2", "/", "2", "9">>,
      <<"2", "0", "2", "5", "/", "0", "1", "/", "0", "5", "1">> }

\* Time fields as users type them.
TimeTexts ==
    { <<"1", "3", ":", "0", "0">>,
      <<"1", "3", "0", "0">>,
      <<"9", ":", "0", "0">>,
      <<"9", "0", "0">>,
      <<"0", "9", ":", "0", "0">>,
      <<"0", "9", "0", "0">>,
      <<"1", "3", "0">>,
      <<"1", "3">>,
      <<"2", "4", ":", "0", "0">>,
      <<"1", "3", ":", "6", "0">>,
      <<"1", "3", "-", "0", "0">>,
      <<"1", "3", ":", "0", "0", ":", "0", "0">>,
      <<" ", "1", "3", ":", "0", "0">>,
      <<>>,
      <<"1", "4", ":", "0", "0">>,
      <<"1", "4", "0", "0">> }

\* normalize_date or normalize_time is applied to two texts, and again to the
\* result of the first.
InitNormalize ==
    /\ InitWith(Stocked)
    /\ prog = "bot3"
    /\ \/ probe \in { [args |-> <<"date", a, b>>, out |-> <<>>] : a \in DateTexts, b \in DateTexts }
       \/ probe \in { [args |-> <<"time", a, b>>, out |-> <<>>] : a \in TimeTexts, b \in TimeTexts }

ApplyNormalize ==
    /\ probe.out = <<>>
    /\ LET a == IF probe.args[1] = "date" THEN normalize_date(probe.args[2])
                                           ELSE normalize_time(probe.args[2])
           b == IF probe.args[1] = "date" THEN normalize_date(probe.args[3])
                                           ELSE normalize_time(probe.args[3])
           again == IF a = ValueError THEN ValueError
                    ELSE IF probe.args[1] = "date" THEN normalize_date(a) ELSE normalize_time(a)
       IN  probe' = [probe EXCEPT !.out = <<a, b, again>>]
    /\ UNCHANGED <<prog, now, rows, nextId, ops, seatViews, partViews, cancelViews, tick, sent,
                   reply, loopTasks, header>>

SpecNormalize == InitNormalize /\ [][ApplyNormalize]_vars

\* ---------------------------------------------------------------- the forms as typed
\* Days of the year before month m
RECURSIVE DaysBefore(_, _)
DaysBefore(y, m) == IF m <= 1 THEN 0 ELSE DaysBefore(y, m - 1) + DaysInMonth(y, m - 1)

\* date.toordinal()
Ordinal(v) ==
    LET y == v[1] - 1
    IN  365 * y + (y \div 4) - (y \div 100) + (y \div 400) + DaysBefore(v[1], v[2]) + v[3]

\* The day number of a date: 2025/01/05 is day 1.
DayNumber(v) == Ordinal(v) - Ordinal(<<2025, 1, 4>>)

\* Cells that hold another spelling of a day than YYYY/MM/DD are numbered from
\* here on, one range per spelling.
SpellingStep == 1000

\* The cell bot/bot2.py writes for a date text its strptime accepted: the text
\* itself.  The canonical spelling is the day number; a month of one character,
\* a day of one character or of a blank and a digit are other cells.
DayCell(text) ==
    LET v == strptime_date(text, "/")
        ml == IF At(text, 7) = "/" THEN 1 ELSE 2
        di == 7 + ml
        variant == (IF ml = 1 THEN 1 ELSE 0)
                       + 2 * (IF Len(text) = di THEN 1 ELSE IF text[di] = " " THEN 2 ELSE 0)
    IN  DayNumber(v) + SpellingStep * variant

\* What the reservation form is submitted with.  kind tells what the text is:
\* a date and times in the spellings the form asks for, start before end
\* (canonical); the same without leading zeros (lenient); start not before end
\* (range); a day of no calendar or a minute of no clock (malformed).
FormRequests ==
    { [day |-> <<"2", "0", "2", "5", "/", "0", "1", "/", "0", "5">>,
       start |-> <<"0", "9", ":", "0", "0">>, end |-> <<"1", "0", ":", "0", "0">>, kind |-> "canonical"],
      [day |-> <<"2", "0", "2", "5", "/", "1", "/", "5">>,
       start |-> <<"9", ":", "0", "0">>, end |-> <<"1", "0", ":", "0", "0">>, kind |-> "lenient"],
      [day |-> <<"2", "0", "2", "5", "-", "0", "1", "-", "0", "5">>,
       start |-> <<"0", "9", "0", "0">>, end |-> <<"1", "0", "0", "0">>, kind |-> "canonical"],
      [day |-> <<"2", "0", "2", "5", "/", "0", "1", "/", "0", "5">>,
       start |-> <<"1", "0", ":", "0", "0">>, end |-> <<"0", "9", ":", "0", "0">>, kind |-> "range"],
      [day |-> <<"2", "0", "2", "5", "/", "0", "1", "/", "0", "5">>,
       start |-> <<"0", "9", ":", "0", "0">>, end |-> <<"0", "9", ":", "0", "0">>, kind |-> "range"],
      [day |-> <<"2", "0", "2", "5", "/", "0", "2", "/", "3", "0">>,
       start |-> <<"0", "9", ":", "0", "0">>, end |-> <<"1", "0", ":", "0", "0">>, kind |-> "malformed"],
      [day |-> <<"2", "0", "2", "5", "/", "0", "1", "/", "0", "5">>,
       start |-> <<"0", "9", ":", "6", "0">>, end |-> <<"1", "0", ":", "0", "0">>, kind |-> "malformed"] }

\* TimeInputModal.on_submit as typed: strptime of the date, parse_time of the
\* times, then the handler on the texts themselves.
TimeInputModal_form(u, req) ==
    /\ prog = "bot2"
    /\ IF \/ strptime_date(req.day, "/") = ValueError
          \/ parse_time(req.start) = ValueError
          \/ parse_time(req.end) = ValueError
       THEN /\ reply' = Reply("check", "InvalidFormat", 0, 0, 0, 0, 0)
            /\ Interaction
            /\ UNCHANGED <<probe, loopTasks, header, prog, now, rows, nextId, seatViews, partViews,
                           cancelViews, tick, sent>>
       ELSE TimeInputModal_on_submit(u, DayCell(req.day), time_to_minutes(parse_time(req.start)),
                                     time_to_minutes(parse_time(req.end)))

\* ReservationModal.on_submit as typed: normalize_date and normalize_time, then
\* the handler on the canonical texts.
ReservationModal_form(u, req) ==
    /\ prog = "bot3"
    /\ IF \/ normalize_date(req.day) = ValueError
          \/ normalize_time(req.start) = ValueError
          \/ normalize_time(req.end) = ValueError
       THEN /\ reply' = Reply("check", "InvalidFormat", 0, 0, 0, 0, 0)
            /\ Interaction
            /\ UNCHANGED <<probe, loopTasks, header, prog, now, rows, nextId, seatViews, partViews,
                           cancelViews, tick, sent>>
       ELSE ReservationModal_on_submit(u, DayNumber(strptime_date(normalize_date(req.day), "/")),
                time_to_minutes(strptime_time(normalize_time(req.start), ":")),
                time_to_minutes(strptime_time(normalize_time(req.end), ":")))

\* The reservation flow from the typed form to the row.
NextForm ==
    \/ \E u \in Users, req \in FormRequests :
           \/ TimeInputModal_form(u, req)
           \/ ReservationModal_form(u, req)
    \/ \E v \in seatViews, clicker \in Users, seat \in Seats, known \in BOOLEAN :
           \/ ChannelSelect_callback(v, clicker, seat, known)
           \/ ReservationSeatSelect_callback(v, clicker, seat, known)

InitForm ==
    /\ prog \in Progs
    /\ now = 0
    /\ rows = Stocked
    /\ nextId = Len(Stocked) + 1
    /\ ops = MaxOps - MaxFormOps
    /\ seatViews = {}
    /\ partViews = {}
    /\ cancelViews = {}
    /\ tick = <<>>
    /\ loopTasks = 1
    /\ \E h \in BOOLEAN : header = ensure_header_row(h)
    /\ sent = [i \in Ids |-> 0]
    /\ reply = Reply("none", "none", 0, 0, 0, 0, 0)
    /\ probe = NoProbe

SpecForm == InitForm /\ [][NextForm]_vars

\* ---------------------------------------------------------------- cell updates
\* Sheet rows a cell update is aimed at: the rows of the data and the first two
\* below them.
CellRows == 2..5
\* What the participants cell is set to.
CellValues == PartChoices \cup {{}}

\* One of the two cell updates is called on some sheet.
InitCell ==
    /\ \E store \in SampleStores : InitWith(store)
    /\ \/ probe \in { [args |-> <<"update_participants", k, ps>>, out |-> <<>>] :
                         k \in CellRows, ps \in CellValues }
       \/ probe \in { [args |-> <<"mark_reminded", k>>, out |-> <<>>] : k \in CellRows }

\* The call, and for mark_reminded the same call once more; probe.out keeps
\* the sheet as it was before each call.
ApplyCell ==
    /\ probe.args # <<>>
    /\ probe.args[1] \in {"update_participants", "mark_reminded"}
    /\ probe.out = <<>> \/ (probe.args[1] = "mark_reminded" /\ Len(probe.out) = 1)
    /\ rows' = IF probe.args[1] = "update_participants"
               THEN update_participants(rows, probe.args[2], probe.args[3])
               ELSE mark_reminded(rows, probe.args[2])
    /\ probe' = [probe EXCEPT !.out = Append(@, rows)]
    /\ UNCHANGED <<prog, now, nextId, ops, seatViews, partViews, cancelViews, tick, sent,
                   reply, loopTasks, header>>

SpecCell == InitCell /\ [][ApplyCell]_vars

\* ---------------------------------------------------------------- finding reservations
\* The three programs that search the sheet; here `rows` is the whole sheet as
\* the API returns it, the header row included when it is there.
FindProgs == {"bot1.py", "bot2.py", "bot/bot2.py"}

\* self.header as a sheet row
HeaderRow == [BlankRow EXCEPT !.name = "header"]

\* The loop of find_reservations / find_by_user over the fetched rows, the header
\* skipped: row i + 1 of `fetched` is given the index i + base when it equals
\* every filter that is set (0 and "" read as false in `if user and ...`).
RECURSIVE Scan(_, _, _, _, _, _)
Scan(fetched, i, base, user, day, channel) ==
    IF i > Len(fetched) - 1 THEN <<>>
    ELSE LET row == fetched[i + 1]
             skip == \/ (user # 0 /\ row.owner # user)
                     \/ (day # 0 /\ row.day # day)
                     \/ (channel # "" /\ row.name # channel)
         IN  (IF skip THEN <<>> ELSE <<[row_index |-> i + base, row |-> row]>>)
                 \o Scan(fetched, i + 1, base, user, day, channel)

\* get_values: bot1.py returns the sheet as it is; bot2.py writes the header
\* into an empty sheet and returns [], and puts the header in front of the
\* returned list (not of the sheet) when the first row is something else.
get_values(p, sheet) ==
    IF p = "bot1.py" THEN [values |-> sheet, sheet |-> sheet]
    ELSE IF sheet = <<>> THEN [values |-> <<>>, sheet |-> <<HeaderRow>>]
    ELSE IF sheet[1] # HeaderRow THEN [values |-> <<HeaderRow>> \o sheet, sheet |-> sheet]
    ELSE [values |-> sheet, sheet |-> sheet]

\* ensure_header_row of bot/bot2.py on the whole sheet: the header is written
\* into an empty sheet and inserted above a first row that is something else;
\* fetch_rows and append_row run it first
ensure_header_sheet(sheet) ==
    IF sheet = <<>> THEN <<HeaderRow>>
    ELSE IF sheet[1] # HeaderRow THEN <<HeaderRow>> \o sheet
    ELSE sheet

\* find_reservations(user, day, channel) of bot1.py and bot2.py and
\* find_by_user(user_id) of bot/bot2.py: the matches, and the sheet the call
\* leaves.  bot1.py appends the header below the data when the first row is not
\* the header, and returns [].
find_reservations(p, sheet, user, day, channel) ==
    IF p = "bot1.py"
    THEN IF sheet = <<>> THEN [found |-> <<>>, sheet |-> sheet]
         ELSE IF sheet[1] # HeaderRow
              THEN [found |-> <<>>, sheet |-> Append(sheet, HeaderRow)]
              ELSE [found |-> Scan(sheet, 1, 0, user, day, channel), sheet |-> sheet]
    ELSE IF p = "bot2.py"
    THEN LET got == get_values(p, sheet)
         IN  IF Len(got.values) <= 1 THEN [found |-> <<>>, sheet |-> got.sheet]
             ELSE [found |-> Scan(got.values, 1, 0, user, day, channel), sheet |-> got.sheet]
    ELSE LET fetched == ensure_header_sheet(sheet)
         IN  [found |-> Scan(fetched, 1, 1, user, 0, ""), sheet |-> fetched]

\* The row of the sheet a row_index stands for, as delete_row of the program
\* takes it: startIndex = row_index in bot1.py and bot2.py, row_index - 1 in
\* bot/bot2.py.
SheetRow(p, row_index) == IF p = "bot/bot2.py" THEN row_index ELSE row_index + 1

\* What a search leaves in `probe`: the filter, the matches and the sheet when
\* the search returned.
Searched(user, day, channel, res) ==
    [args |-> <<user, day, channel>>, out |-> <<res.found, res.sheet>>]

\* datetime.strptime(cell, "%H:%M").time() of a time kept as minutes of the day
TimeOfCell(m) == <<m \div 60, m % 60>>

\* The session starts on a new, empty sheet or on one that has its header.
InitFind ==
    /\ prog \in FindProgs
    /\ now = 0
    /\ rows \in {<<>>, <<HeaderRow>>}
    /\ nextId = 1
    /\ ops = MaxOps - MaxSessionOps
    /\ seatViews = {}
    /\ partViews = {}
    /\ cancelViews = {}
    /\ tick = <<>>
    /\ loopTasks = 0
    /\ header = TRUE
    /\ sent = [i \in Ids |-> 0]
    /\ reply = Reply("none", "none", 0, 0, 0, 0, 0)
    /\ probe = NoProbe

\* ReservationModal.on_submit of bot1.py and bot2.py: is_slot_available looks
\* the seat's reservations of the day up, and the row is appended when none of
\* them overlaps.
ReservationModal_find(user, seat, day, s, e) ==
    /\ prog \in {"bot1.py", "bot2.py"}
    /\ Interaction
    /\ LET res == find_reservations(prog, rows, 0, day, seat)
           taken == \E k \in 1..Len(res.found) :
                        bot1_overlap(TimeOfCell(s), TimeOfCell(e),
                                     TimeOfCell(res.found[k].row.start),
                                     TimeOfCell(res.found[k].row.end))
       IN  /\ probe' = Searched(0, day, seat, res)
           /\ IF taken
              THEN /\ rows' = res.sheet
                   /\ nextId' = nextId
                   /\ reply' = Reply("reserve", "Unavailable", user, 0, 0, 0, 0)
              ELSE /\ rows' = Append(res.sheet, NewRow(nextId, user, seat, day, s, e, 0))
                   /\ nextId' = nextId + 1
                   /\ reply' = Reply("reserve", "ok", user, 0, 0, 0, 0)
    /\ UNCHANGED <<prog, now, seatViews, partViews, cancelViews, tick, sent, loopTasks, header>>

\* CancelReservationModal.on_submit of bot1.py and bot2.py: the reservations
\* of the name, day and seat are looked up, narrowed to the start and end, and
\* the first one is deleted at its row_index (a row below the data is empty,
\* deleting it leaves the data as it is).
CancelReservationModal_find(user, seat, day, s, e) ==
    /\ prog \in {"bot1.py", "bot2.py"}
    /\ Interaction
    /\ LET res == find_reservations(prog, rows, user, day, seat)
           hits == SelectSeq(res.found, LAMBDA m : m.row.start = s /\ m.row.end = e)
       IN  /\ probe' = Searched(user, day, seat, res)
           /\ IF hits = <<>>
              THEN /\ rows' = res.sheet
                   /\ reply' = Reply("cancel", "NotFound", user, 0, 0, 0, 0)
              ELSE /\ rows' = IF SheetRow(prog, hits[1].row_index) > Len(res.sheet)
                              THEN res.sheet
                              ELSE [k \in 1..(Len(res.sheet) - 1) |->
                                       IF k < SheetRow(prog, hits[1].row_index)
                                       THEN res.sheet[k] ELSE res.sheet[k + 1]]
                   /\ reply' = Reply("cancel", "ok", user, 0, hits[1].row.id, 0, 0)
    /\ UNCHANGED <<prog, now, nextId, seatViews, partViews, cancelViews, tick, sent,
                   loopTasks, header>>

\* /reserve_list of bot1.py and bot2.py: find_reservations() without a filter
reserve_list ==
    /\ prog \in {"bot1.py", "bot2.py"}
    /\ Interaction
    /\ LET res == find_reservations(prog, rows, 0, 0, "")
       IN  /\ probe' = Searched(0, 0, "", res)
           /\ rows' = res.sheet
           /\ reply' = Reply("list", IF res.found = <<>> THEN "NotFound" ELSE "ok", 0, 0, 0, 0,
                             Len(res.found))
    /\ UNCHANGED <<prog, now, nextId, seatViews, partViews, cancelViews, tick, sent,
                   loopTasks, header>>

\* bot/bot2.py: append_row (which runs ensure_header_row first) puts a user's
\* reservation below the data.
append_row(user, seat, day, s, e) ==
    /\ prog = "bot/bot2.py"
    /\ Interaction
    /\ rows' = Append(ensure_header_sheet(rows), NewRow(nextId, user, seat, day, s, e, 0))
    /\ nextId' = nextId + 1
    /\ reply' = Reply("reserve", "ok", user, 0, 0, 0, 0)
    /\ UNCHANGED <<probe, prog, now, seatViews, partViews, cancelViews, tick, sent,
                   loopTasks, header>>

\* bot/bot2.py: find_by_user(user_id), as send_cancellation_embeds calls it
find_by_user_call(user) ==
    /\ prog = "bot/bot2.py"
    /\ Interaction
    /\ LET res == find_reservations(prog, rows, user, 0, "")
       IN  /\ probe' = Searched(user, 0, "", res)
           /\ rows' = res.sheet
           /\ reply' = Reply("list", IF res.found = <<>> THEN "NotFound" ELSE "ok", user, 0, 0, 0,
                             Len(res.found))
    /\ UNCHANGED <<prog, now, nextId, seatViews, partViews, cancelViews, tick, sent,
                   loopTasks, header>>

NextFind ==
    \/ \E u \in Users, seat \in Seats, day \in Days, r \in StoredSlots :
           ReservationModal_find(u, seat, day, r[1], r[2])
    \/ \E u \in Users, seat \in Seats, day \in Days, r \in StoredSlots :
           CancelReservationModal_find(u, seat, day, r[1], r[2])
    \/ reserve_list
    \/ \E u \in Users, seat \in Seats, day \in Days, r \in StoredSlots :
           append_row(u, seat, day, r[1], r[2])
    \/ \E u \in Users : find_by_user_call(u)

SpecFind == InitFind /\ [][NextFind]_vars

\* ---------------------------------------------------------------- sheets without a header on top
\* Two reservations that do not overlap, as bot1.py and bot2.py append them.
LegacyRows ==
    { <<NewRow(1, 1, seat, 1, 1, 2, 0), NewRow(2, u, "A", 1, 2, 3, 0)>> :
          seat \in Seats, u \in Users }

\* The sheets bot2.py is started on: the header on top of the data, or the data
\* alone, or with the header below the first row as bot1.py leaves a sheet that
\* was empty when its first reservation was made.
LegacySheets ==
    { <<HeaderRow>> \o d : d \in LegacyRows } \cup LegacyRows
        \cup { <<d[1], HeaderRow, d[2]>> : d \in LegacyRows }

InitLegacy ==
    /\ prog = "bot2.py"
    /\ now = 0
    /\ rows \in LegacySheets
    /\ nextId = 3
    /\ ops = MaxOps - MaxSessionOps
    /\ seatViews = {}
    /\ partViews = {}
    /\ cancelViews = {}
    /\ tick = <<>>
    /\ loopTasks = 0
    /\ header = TRUE
    /\ sent = [i \in Ids |-> 0]
    /\ reply = Reply("none", "none", 0, 0, 0, 0, 0)
    /\ probe = NoProbe

NextLegacy ==
    \/ \E u \in Users, seat \in Seats, day \in Days, r \in StoredSlots :
           ReservationModal_find(u, seat, day, r[1], r[2])
    \/ \E u \in Users, seat \in Seats, day \in Days, r \in StoredSlots :
           CancelReservationModal_find(u, seat, day, r[1], r[2])
    \/ reserve_list

SpecLegacy == InitLegacy /\ [][NextLegacy]_vars

\* ---------------------------------------------------------------- one flow at a time
\* bot3 with reservation flows that do not overlap in time: a form is submitted
\* only when no seat select of an earlier form is open, so no other flow appends
\* between a flow's availability check and its append.  A select that is never
\* used changes no row, so these are the row histories of all runs in which no
\* append falls between a check and its append.
InitSerial == InitWith(Stocked) /\ prog = "bot3" /\ probe = NoProbe

NextSerial ==
    \/ \E u \in Users, day \in Days, r \in Requests :
           seatViews = {} /\ ReservationModal_on_submit(u, day, r[1], r[2])
    \/ \E v \in seatViews, clicker \in Users, seat \in Seats, known \in BOOLEAN :
           ReservationSeatSelect_callback(v, clicker, seat, known)
    \/ \E v \in seatViews : SeatView_timeout(v)
    \/ \E u \in Users, seat \in Seats, day \in Days, r \in CancelRequests :
           CancelReservationModal_on_submit(u, seat, day, r[1], r[2])

SpecSerial == InitSerial /\ [][NextSerial]_vars

\* ---------------------------------------------------------------- writes at a fetched index
\* The columns of the sheet, A first.
Columns == <<"A", "B", "C", "D", "E", "F", "G", "H", "I">>

\* The column update_participants (bot/bot2.py) and update_assistants (bot3.py)
\* write.
ParticipantsColumnWritten(p) == IF p = "bot2" THEN "G" ELSE "H"

\* The column the reminder loop and the listings read the participants from:
\* row[6] in bot/bot2.py, row[7] in bot3.py.
ParticipantsColumnRead(p) == IF p = "bot2" THEN Columns[6 + 1] ELSE Columns[7 + 1]

\* The store calls that take an index of fetch_rows.
FetchedOps == {"delete_row", "mark_reminded", "update_participants"}

\* One of them is about to be called with the index of the k-th fetched pair of
\* some sheet.
InitFetched ==
    /\ \E store \in SampleStores : InitWith(store)
    /\ probe \in { [args |-> <<"fetched", op, k, ps>>, out |-> <<>>] :
                      op \in FetchedOps, k \in 1..2, ps \in CellValues }

\* The rows are fetched and the call is made with the index of the pair, nothing
\* else touching the sheet in between; probe.out keeps the sheet as it was and
\* the pair.
ApplyFetched ==
    /\ probe.args # <<>> /\ probe.args[1] = "fetched"
    /\ probe.out = <<>>
    /\ probe.args[3] <= Len(fetch_rows(rows))
    /\ LET pair == fetch_rows(rows)[probe.args[3]]
       IN  /\ rows' = IF probe.args[2] = "delete_row" THEN delete_row(rows, pair.idx)
                      ELSE IF probe.args[2] = "mark_reminded" THEN mark_reminded(rows, pair.idx)
                      ELSE update_participants(rows, pair.idx, probe.args[4])
           /\ probe' = [probe EXCEPT !.out = <<rows, pair>>]
    /\ UNCHANGED <<prog, now, nextId, ops, seatViews, partViews, cancelViews, tick, sent,
                   reply, loopTasks, header>>

SpecFetched == InitFetched /\ [][ApplyFetched]_vars

\* ---------------------------------------------------------------- ensuring the header
\* _ensure_header_row of bot3.py on the whole sheet: when row 1 is missing or is
\* not the header, the header is written into A1:I1.
ensure_header_row_bot3(sheet) ==
    IF sheet = <<>> THEN <<HeaderRow>>
    ELSE IF sheet[1] # HeaderRow THEN [sheet EXCEPT ![1] = HeaderRow]
    ELSE sheet

\* Whole sheets the programs are started on: the header on top of up to two
\* rows, or those rows alone.
HeaderSheets == { <<HeaderRow>> \o store : store \in SampleStores } \cup SampleStores

\* The header is about to be ensured on some sheet; here `rows` is the whole
\* sheet.
InitHeader ==
    /\ prog \in Progs
    /\ now = 0
    /\ rows \in HeaderSheets
    /\ nextId = 3
    /\ ops = 0
    /\ seatViews = {}
    /\ partViews = {}
    /\ cancelViews = {}
    /\ tick = <<>>
    /\ loopTasks = 0
    /\ header = (rows # <<>> /\ rows[1] = HeaderRow)
    /\ sent = [i \in Ids |-> 0]
    /\ reply = Reply("none", "none", 0, 0, 0, 0, 0)
    /\ probe = [args |-> <<"ensure_header_row">>, out |-> <<>>]

\* SheetClient.__init__ of bot3.py, and the first fetch_rows or append_row of
\* bot/bot2.py, ensure the header; probe.out keeps the sheet as it was.
ApplyEnsureHeader ==
    /\ probe.args = <<"ensure_header_row">>
    /\ probe.out = <<>>
    /\ rows' = IF prog = "bot2" THEN ensure_header_sheet(rows) ELSE ensure_header_row_bot3(rows)
    /\ header' = ensure_header_row(header)
    /\ probe' = [probe EXCEPT !.out = <<rows>>]
    /\ UNCHANGED <<prog, now, nextId, ops, seatViews, partViews, cancelViews, tick, sent,
                   reply, loopTasks>>

SpecHeader == InitHeader /\ [][ApplyEnsureHeader]_vars

\* ---------------------------------------------------------------- recent reservations
\* Python's seq[start:] : a negative start counts from the end and is cut off
\* at the front of the list, a start of 0 (also written -0) is the front.
SliceFrom(seq, start) ==
    LET n == Len(seq)
        from == IF start < 0 THEN Max(n + start, 0) ELSE Min(start, n)
    IN  SubSeq(seq, from + 1, n)

\* list(reversed(seq))
Reversed(seq) == [k \in 1..Len(seq) |-> seq[Len(seq) - k + 1]]

\* SheetClient.recent_reservations(limit): rows[-limit:] of the fetched rows,
\* each as its record, the last first
recent_reservations(rs, limit) ==
    LET recent == SliceFrom(fetch_rows(rs), - limit)
    IN  Reversed([k \in 1..Len(recent) |-> recent[k].row])

\* The limits recent_reservations is called with.
Limits == 0..3

InitRecent ==
    /\ \E store \in SampleStores : InitWith(store)
    /\ prog = "bot3"
    /\ probe \in { [args |-> <<"recent_reservations", limit>>, out |-> <<>>] : limit \in Limits }

ApplyRecent ==
    /\ probe.args # <<>> /\ probe.args[1] = "recent_reservations"
    /\ probe.out = <<>>
    /\ probe' = [probe EXCEPT !.out = <<recent_reservations(rows, probe.args[2])>>]
    /\ UNCHANGED <<prog, now, rows, nextId, ops, seatViews, partViews, cancelViews, tick, sent,
                   reply, loopTasks, header>>

SpecRecent == InitRecent /\ [][ApplyRecent]_vars

\* ---------------------------------------------------------------- properties
KeyOf(r) == <<r.owner, r.name, r.day, r.start, r.end>>
IdsOf(rs) == { rs[i].id : i \in 1..Len(rs) } \ {0}

\* C1: any two distinct rows of the store with the same resource name and the
\* same date have non-overlapping [start, end) ranges.
C1_NoDoubleBooking ==
    \A i \in 1..Len(rows), j \in 1..Len(rows) :
        (i # j /\ rows[i].name # "" /\ rows[i].name = rows[j].name /\ rows[i].day = rows[j].day)
            => ~ (Max(rows[i].start, rows[j].start) < Min(rows[i].end, rows[j].end))

\* C2: the scheduler successfully sends at most one reminder for any one
\* reservation.
C2_AtMostOneReminder == \A i \in Ids : sent[i] <= 1

\* C3: with a gateway that never fails and a tick every minute, a reservation
\* that was created before its reminder instant and is still in the store when
\* the tick of its start minute has finished has had its reminder sent and its
\* reminded flag set.
C3_ReminderDelivered ==
    \A i \in 1..Len(rows) :
        ( /\ rows[i].id # 0
          /\ rows[i].created < StartInstant(rows[i].day, rows[i].start) - Lead
          /\ now >= StartInstant(rows[i].day, rows[i].start)
          /\ tick = <<>> )
            => (sent[rows[i].id] >= 1 /\ rows[i].reminded)

\* C4: a reservation leaves the store only in a cancel that was aimed at that
\* reservation and issued by the user its owner_id names.
C4_OnlyTargetLeaves ==
    [][ \A i \in 1..Len(rows) :
            (rows[i].id # 0 /\ rows[i].id \notin IdsOf(rows'))
                => /\ reply'.op = "cancel"
                   /\ reply'.target = rows[i].id
                   /\ reply'.caller = rows[i].owner ]_vars

\* C5: the seat-selection callback appends a row only when no row of the store
\* overlaps the slot on the same resource and date at the moment of the append.
C5_AppendOnlyIfFree ==
    (reply.op = "reserve" /\ reply.res = "ok") => reply.n = 0

\* C6: a reservation's reminded flag is TRUE only if a reminder for that same
\* reservation was successfully sent.
C6_FlagOnlyAfterSend ==
    \A i \in 1..Len(rows) :
        (rows[i].id # 0 /\ rows[i].reminded) => sent[rows[i].id] >= 1

\* C7: a participant selection changes the participants cell only of a row
\* whose owner_id equals the caller's id, and an answer other than success
\* leaves the store unchanged.
C7_ParticipantsOnlyOwnRow ==
    [][ reply'.op = "parts" =>
            /\ reply'.res # "ok" => rows' = rows
            /\ \A i \in 1..Len(rows') :
                   (i > Len(rows) \/ rows'[i] # rows[i])
                       => (i <= Len(rows) /\ rows[i].owner = reply'.caller) ]_vars

\* C8: a successful cancel by key (bot3) removes exactly the first row in store
\* order whose (owner_id, resource, date, start, end) equals the request, leaves
\* every other row and their order unchanged, and when the key was not
\* duplicated no row with that key is left.
C8_CancelRemovesFirstMatch ==
    [][ \A u \in Users, seat \in Seats, day \in Days, r \in CancelRequests :
            (CancelReservationModal_on_submit(u, seat, day, r[1], r[2]) /\ reply'.res = "ok")
                => \E k \in 1..Len(rows) :
                       /\ KeyOf(rows[k]) = <<u, seat, day, r[1], r[2]>>
                       /\ \A i \in 1..(k - 1) : KeyOf(rows[i]) # <<u, seat, day, r[1], r[2]>>
                       /\ Len(rows') = Len(rows) - 1
                       /\ \A i \in 1..(k - 1) : rows'[i] = rows[i]
                       /\ \A i \in k..Len(rows') : rows'[i] = rows[i + 1]
                       /\ (\A i \in 1..Len(rows) : i # k => KeyOf(rows[i]) # KeyOf(rows[k]))
                              => \A i \in 1..Len(rows') : KeyOf(rows'[i]) # KeyOf(rows[k]) ]_vars

\* C8 witness: a cancel by key has succeeded where two rows carried the key, and
\* rows remain.
C8_Witness ==
    /\ prog = "bot3" /\ reply.op = "cancel" /\ reply.res = "ok"
    /\ reply.n = 2 /\ Len(rows) >= 2

\* C9: a cancel by a user who is not the owner_id of the row it matches is
\* answered NotOwner and the row stays in the store.
C9_NonOwnerCancelRefused ==
    [][ /\ \A u \in Users, seat \in Seats, day \in Days, r \in CancelRequests :
               ( /\ CancelReservationModal_on_submit(u, seat, day, r[1], r[2])
                 /\ \E i \in 1..Len(rows) :
                        /\ <<rows[i].name, rows[i].day, rows[i].start, rows[i].end>>
                               = <<seat, day, r[1], r[2]>>
                        /\ rows[i].owner # u
                 /\ \A i \in 1..Len(rows) : KeyOf(rows[i]) # <<u, seat, day, r[1], r[2]>> )
                   => (reply'.res = "NotOwner" /\ rows' = rows)
        /\ \A v \in cancelViews :
               (do_cancel(v) /\ RowAt(rows, v.row_index).owner # v.user)
                   => (reply'.res = "NotOwner" /\ rows' = rows) ]_vars

\* C10: in the state right after a successful reserve, the availability check
\* for the reserved resource, date and range reports the resource as taken.
C10_ReservedSeatTaken ==
    (reply.op = "reserve" /\ reply.res = "ok") =>
        \E i \in 1..Len(rows) :
            /\ rows[i].id = reply.target
            /\ prog = "bot3" =>
                   rows[i].name \in
                       conflicting_seat_names(rows, rows[i].day, rows[i].start, rows[i].end)
            /\ prog = "bot2" =>
                   ~ is_slot_available(rows, rows[i].name, rows[i].day, rows[i].start, rows[i].end)

\* C10 witness: a reserve has just succeeded and its row is the last one of the
\* store, below the rows the session started with.
C10_Witness ==
    /\ reply.op = "reserve" /\ reply.res = "ok"
    /\ \E i \in 1..Len(rows) : rows[i].id = reply.target /\ i = Len(rows) /\ i > Len(Stocked)

\* C11: for a range with start < end, the time form offers exactly the seats
\* for which no row of the store has the same name, the same date and a range
\* sharing a minute with the requested one; a seat whose row only abuts the
\* range is offered.
C11_AvailableSeatsExact ==
    [][ \A u \in Users, day \in Days, r \in CancelRequests :
            ( /\ r[1] < r[2]
              /\ \/ ReservationModal_on_submit(u, day, r[1], r[2])
                 \/ TimeInputModal_on_submit(u, day, r[1], r[2]) )
                => LET free == { seat \in Seats :
                                   ~ \E i \in 1..Len(rows) :
                                         /\ rows[i].name = seat
                                         /\ rows[i].day = day
                                         /\ \E m \in r[1]..(r[2] - 1) :
                                                rows[i].start <= m /\ m < rows[i].end }
                   IN  IF free = {}
                       THEN seatViews' = seatViews /\ reply'.res = "NoSeat"
                       ELSE \E v \in seatViews' :
                                /\ seatViews' = seatViews \cup {v}
                                /\ v \notin seatViews
                                /\ v.channels = free
                                /\ <<v.user, v.day, v.start, v.end>> = <<u, day, r[1], r[2]>> ]_vars

\* C11 witness: a seat is offered although a row of the same seat and date ends
\* exactly when the requested range starts.
C11_Witness ==
    \E v \in seatViews, i \in 1..Len(rows) :
        /\ rows[i].name \in v.channels
        /\ rows[i].day = v.day
        /\ rows[i].end = v.start

\* C12: for ranges with startA < endA and startB < endB, has_overlap (bot3),
\* overlaps (bot2) and the inline test of bot1 each answer true exactly when
\* [startA, endA) and [startB, endB) share a minute of the day.
C12_OverlapIsIntersection ==
    probe.out # <<>> =>
        LET share == \E m \in 0..(DayLen - 1) :
                         /\ probe.args[1][1] * 60 + probe.args[1][2] <= m
                         /\ m < probe.args[2][1] * 60 + probe.args[2][2]
                         /\ probe.args[3][1] * 60 + probe.args[3][2] <= m
                         /\ m < probe.args[4][1] * 60 + probe.args[4][2]
        IN  probe.out = <<share, share, share>>

\* C12 witness: the tests have answered for two ranges that touch at a boundary.
C12_Witness ==
    /\ probe.out # <<>>
    /\ Len(probe.args) = 4
    /\ probe.args[2] = probe.args[3]

\* C13: a reservation enters the store with reminded FALSE, and a reservation
\* whose flag is TRUE keeps it TRUE in every step that leaves its row in the
\* store.
C13_RemindedMonotonic ==
    [][ /\ \A i \in 1..Len(rows), j \in 1..Len(rows') :
               (rows[i].id # 0 /\ rows'[j].id = rows[i].id /\ rows[i].reminded)
                   => rows'[j].reminded
        /\ \A j \in 1..Len(rows') :
               (rows'[j].id # 0 /\ rows'[j].id \notin IdsOf(rows)) => ~ rows'[j].reminded ]_vars

\* C13 witness: a reservation created in this session carries the flag, and a
\* participant selection has just been written.
C13_Witness ==
    /\ reply.op = "parts" /\ reply.res = "ok"
    /\ \E i \in 1..Len(rows) : rows[i].id > Len(Stocked) /\ rows[i].reminded

\* C14: a send that fails writes nothing to the store, and when the next tick
\* follows while the reservation is unflagged and inside its lead window
\* (start - lead <= now <= start), that tick attempts the send for it again.
C14_FailedSendRetried ==
    [][ /\ (reply'.op = "remind" /\ reply'.res = "SendFailed") => rows' = rows
        /\ (reply.op = "remind" /\ reply.res = "SendFailed" /\ reminder_loop)
               => \A i \in 1..Len(rows) :
                      ( /\ rows[i].id = reply.target
                        /\ ~ rows[i].reminded
                        /\ StartInstant(rows[i].day, rows[i].start) - Lead <= now'
                        /\ now' <= StartInstant(rows[i].day, rows[i].start) )
                          => \E k \in 1..Len(tick') : tick'[k].id = reply.target ]_vars

\* C15: a tick queues every unreminded reservation with a date and a start
\* whose start lies between now and now + lead, whatever happened in earlier
\* ticks.
C15_WindowIsDue ==
    [][ reminder_loop =>
            \A i \in 1..Len(rows) :
                ( /\ rows[i].id # 0
                  /\ ~ rows[i].reminded
                  /\ rows[i].day # 0 /\ rows[i].start # 0
                  /\ StartInstant(rows[i].day, rows[i].start) - Lead <= now'
                  /\ now' <= StartInstant(rows[i].day, rows[i].start) )
                    => \E k \in 1..Len(tick') : tick'[k].id = rows[i].id ]_vars

\* C16, as stated: with lead 15 and an unreminded reservation starting at 13:00
\* today, a tick at 12:46 finds nothing due; a tick at 12:45 queues it, and the
\* send that succeeds sets its flag; a tick at 12:50 does not queue it once it
\* is flagged.
C16_ScenarioAsStated ==
    [][ /\ (reminder_tick(LeadDefault, ScenarioStart - 9) /\ ~ rows[1].reminded
               /\ now' = ScenarioStart - 14) => tick' = <<>>
        /\ (reminder_tick(LeadDefault, ScenarioStart - 9) /\ ~ rows[1].reminded
               /\ now' = ScenarioStart - 15) => tick' = <<[idx |-> 2, id |-> 1]>>
        /\ (reminder_send_done(TRUE) /\ now = ScenarioStart - 15)
               => (rows'[1].reminded /\ sent'[1] = sent[1] + 1)
        /\ (reminder_tick(LeadDefault, ScenarioStart - 9) /\ rows[1].reminded
               /\ now' = ScenarioStart - 10) => tick' = <<>> ]_vars

\* C16, amended: the tick that finds nothing due is the one at 12:44, a minute
\* before the window opens; the rest as stated.
C16_ScenarioAmended ==
    [][ /\ (reminder_tick(LeadDefault, ScenarioStart - 9) /\ ~ rows[1].reminded
               /\ now' = ScenarioStart - 16) => tick' = <<>>
        /\ (reminder_tick(LeadDefault, ScenarioStart - 9) /\ ~ rows[1].reminded
               /\ now' = ScenarioStart - 15) => tick' = <<[idx |-> 2, id |-> 1]>>
        /\ (reminder_send_done(TRUE) /\ now = ScenarioStart - 15)
               => (rows'[1].reminded /\ sent'[1] = sent[1] + 1)
        /\ (reminder_tick(LeadDefault, ScenarioStart - 9) /\ rows[1].reminded
               /\ now' = ScenarioStart - 10) => tick' = <<>> ]_vars

\* C16 witness: the tick at 12:50 has run and queued nothing for the
\* reservation, which was notified once and is flagged.
C16_Witness ==
    /\ Len(rows) = 1 /\ rows[1].start = ScenarioStart
    /\ now = ScenarioStart - 10 /\ reply.op = "tick" /\ tick = <<>>
    /\ rows[1].reminded /\ sent[1] = 1

\* C17: a failure while one due reservation is handled (channel.send raising,
\* or the store raising in mark_reminded) leaves the remaining due reservations
\* of the tick to be processed and the loop running for later ticks.
C17_FailureIsolated ==
    [][ (reply'.op = "remind" /\ reply'.res \in {"SendFailed", "StoreFailed"} /\ tick # <<>>
            /\ tick' # tick)
            => (tick' = Tail(tick) /\ loopTasks' > 0) ]_vars

\* C18: when the configured reminder lead time is 0 or negative, no tick ever
\* sends a reminder or sets a reminded flag.
C18_NonPositiveLeadDisables ==
    (probe.args # <<>> /\ probe.args[1] # <<>> /\ probe.args[1][1] <= 0)
        => /\ \A i \in Ids : sent[i] = 0
           /\ \A i \in 1..Len(rows) : ~ rows[i].reminded

\* C19: at most one body of the reminder loop executes at any time: a tick
\* starts only when no earlier tick awaits a send, a body awaiting a send
\* belongs to the one task of the loop, and an on_ready event never leaves more
\* than one task of the loop alive.
C19_SingleTick ==
    [][ /\ (now' # now => (tick = <<>> /\ loopTasks = 1))
        /\ (tick' # <<>> => loopTasks' = 1)
        /\ loopTasks' <= 1 ]_vars

\* C19 witness: on_ready has arrived again while a tick awaits its send, and
\* there is still one task of the loop.
C19_Witness ==
    /\ reply.op = "ready" /\ reply.res = "AlreadyRunning"
    /\ tick # <<>>
    /\ loopTasks = 1

\* C20: when the append returned 0 for the new row's position, no cell update
\* is issued with that number as the row: the participants update re-resolves
\* the row by its key or is not issued.  ("StoreRejected" is what the store
\* answers to the update that was issued for row 0.)
C20_NoUpdateWithUnknownIndex ==
    [][ \A v \in partViews :
            v.row_index = 0
                => ~ (reply'.op = "parts" /\ reply'.res = "StoreRejected"
                        /\ reply'.target = v.target) ]_vars

\* The YYYY/MM/DD (sep = "/") or YYYY-MM-DD (sep = "-") spelling
IsDateSpelling(s, sep) ==
    /\ Len(s) = 10
    /\ \A i \in {1, 2, 3, 4, 6, 7, 9, 10} : IsDigit(s[i])
    /\ s[5] = sep /\ s[8] = sep
\* The HH:MM (colon) or HHMM spelling
IsTimeSpelling(s, colon) ==
    IF colon THEN Len(s) = 5 /\ s[3] = ":" /\ \A i \in {1, 2, 4, 5} : IsDigit(s[i])
    ELSE Len(s) = 4 /\ \A i \in 1..4 : IsDigit(s[i])
Digits(s) == SelectSeq(s, IsDigit)

\* C28: normalize_date gives the YYYY/MM/DD and the YYYY-MM-DD spelling of a day
\* the same YYYY/MM/DD text, normalize_time gives the HHMM and the HH:MM spelling
\* of a time the same HH:MM text, both give their own output back, and any
\* text in neither spelling is rejected.
C28_NormalizeCanonical ==
    probe.out # <<>> /\ probe.args[1] \in {"date", "time"} =>
        LET a == probe.args[2]
            b == probe.args[3]
            date == probe.args[1] = "date"
            first == IF date THEN IsDateSpelling(a, "/") ELSE IsTimeSpelling(a, TRUE)
            second == IF date THEN IsDateSpelling(b, "-") ELSE IsTimeSpelling(b, FALSE)
            other == IF date THEN ~ IsDateSpelling(a, "/") /\ ~ IsDateSpelling(a, "-")
                     ELSE ~ IsTimeSpelling(a, TRUE) /\ ~ IsTimeSpelling(a, FALSE)
        IN  /\ (first /\ second /\ Digits(a) = Digits(b) /\ probe.out[1] # ValueError)
                => (probe.out[1] = a /\ probe.out[2] = a)
            /\ probe.out[1] # ValueError => probe.out[3] = probe.out[1]
            /\ other => probe.out[1] = ValueError

C22_CancelNotFound ==
    [][ \A u \in Users, seat \in Seats, day \in Days, r \in CancelRequests :
            ( /\ CancelReservationModal_on_submit(u, seat, day, r[1], r[2])
              /\ ~ \E i \in 1..Len(rows) : KeyOf(rows[i]) = <<u, seat, day, r[1], r[2]>> )
                => (reply'.res = "NotFound" /\ rows' = rows) ]_vars

\* C22 witness: a cancel was answered NotFound while the store holds rows.
C22_Witness ==
    /\ reply.op = "cancel" /\ reply.res = "NotFound"
    /\ rows # <<>>

\* C23: after any operation of the handlers and of the reminder loop, row 1 of
\* the sheet is still the header row: every delete_row is called with a row
\* below it.
C23_HeaderKept ==
    [][ /\ header'
        /\ \A v \in cancelViews : do_cancel(v) => v.row_index >= 2
        /\ \A u \in Users, seat \in Seats, day \in Days, r \in CancelRequests :
               (CancelReservationModal_on_submit(u, seat, day, r[1], r[2]) /\ rows' # rows)
                   => find_matching_row(rows, u, seat, day, r[1], r[2]) >= 2 ]_vars

\* C23 witness: the first data row was deleted, by either cancel, and the
\* header is in place.
C23_Witness ==
    /\ reply.op = "cancel" /\ reply.res = "ok" /\ reply.hit = 1
    /\ header

\* The cells of a row, and the cell of sheet row k in column f ("" or 0 or {}
\* or FALSE where the sheet has nothing)
CellNames == DOMAIN BlankRow
CellAt(rs, k, f) == RowAt(rs, k)[f]

\* C24: update_participants (update_assistants) and mark_reminded change the
\* participants cell, respectively the reminded cell, of the addressed row and
\* no other cell of the sheet.
C24_OneCellChanged ==
    (probe.out # <<>> /\ probe.args[1] \in {"update_participants", "mark_reminded"}) =>
        LET before == probe.out[1]
            k == probe.args[2]
            f == IF probe.args[1] = "update_participants" THEN "parts" ELSE "reminded"
            value == IF probe.args[1] = "update_participants" THEN probe.args[3] ELSE TRUE
        IN  /\ CellAt(rows, k, f) = value
            /\ \A j \in 2..(Len(rows) + Len(before) + 2), g \in CellNames :
                   (j # k \/ g # f) => CellAt(rows, j, g) = CellAt(before, j, g)

\* C24 witness: the participants cell of a row that holds a reservation was
\* set to a member.
C24_Witness ==
    /\ probe.out # <<>> /\ probe.args[1] = "update_participants"
    /\ RowAt(probe.out[1], probe.args[2]).id # 0
    /\ RowAt(rows, probe.args[2]).parts # {}

\* C25: an availability check that reaches the store reads the rows exactly
\* once, whatever the number of candidate seats.
C25_OneFetchPerCheck ==
    (reply.op = "check" /\ reply.res \in {"ok", "NoSeat"}) => reply.n = 1

\* C26: mark_reminded applied twice to a row gives the sheet that applying it
\* once gives, and the row's reminded flag reads TRUE.
C26_MarkRemindedIdempotent ==
    (probe.args # <<>> /\ probe.args[1] = "mark_reminded" /\ Len(probe.out) = 2) =>
        /\ rows = probe.out[2]
        /\ rows = mark_reminded(probe.out[1], probe.args[2])
        /\ CellAt(rows, probe.args[2], "reminded")

\* C26 witness: mark_reminded ran twice on the row of a reservation that was
\* not flagged before.
C26_Witness ==
    /\ probe.args # <<>> /\ probe.args[1] = "mark_reminded" /\ Len(probe.out) = 2
    /\ RowAt(probe.out[1], probe.args[2]).id # 0
    /\ ~ RowAt(probe.out[1], probe.args[2]).reminded
    /\ RowAt(rows, probe.args[2]).reminded

\* C27: a reservation whose range is entirely in the past while its reminded
\* flag is FALSE gets no reminder and keeps the flag FALSE in every later step.
C27_PastNeverReminded ==
    [][ \A i \in 1..Len(rows) :
            ( /\ rows[i].id # 0
              /\ ~ rows[i].reminded
              /\ StartInstant(rows[i].day, rows[i].end) < now )
                => /\ sent'[rows[i].id] = sent[rows[i].id]
                   /\ \A j \in 1..Len(rows') :
                          rows'[j].id = rows[i].id => ~ rows'[j].reminded ]_vars

\* The rows of a sheet that hold a reservation equal to every filter that is
\* set, by their place in the sheet.
StoredMatches(sheet, user, day, channel) ==
    { k \in 1..Len(sheet) :
        /\ sheet[k] # HeaderRow
        /\ user # 0 => sheet[k].owner = user
        /\ day # 0 => sheet[k].day = day
        /\ channel # "" => sheet[k].name = channel }

\* C29: a search returns, in sheet order, exactly the stored reservations that
\* equal every filter that was supplied, each with the row index it has in the
\* sheet; without a filter it returns every reservation.
C29_FindReturnsMatches ==
    probe.out # <<>> =>
        LET found == probe.out[1]
            sheet == probe.out[2]
            place(k) == SheetRow(prog, found[k].row_index)
        IN  /\ { place(k) : k \in 1..Len(found) }
                   = StoredMatches(sheet, probe.args[1], probe.args[2], probe.args[3])
            /\ \A k \in 1..Len(found) : sheet[place(k)] = found[k].row
            /\ \A k \in 1..(Len(found) - 1) : place(k) < place(k + 1)

\* C30: a form that is accepted offers no seat for which the sheet already
\* holds a reservation of the same calendar day, however that day is spelled in
\* its cell, with an overlapping time range; so two such requests made one after
\* the other are never both stored.
C30_ConflictByCalendarDay ==
    [][ \A v \in seatViews' \ seatViews : \A seat \in v.channels :
            ~ \E j \in 1..Len(rows) :
                  /\ rows[j].id # 0
                  /\ rows[j].name = seat
                  /\ rows[j].day % SpellingStep = v.day % SpellingStep
                  /\ Max(rows[j].start, v.start) < Min(rows[j].end, v.end) ]_vars

\* The sheet without the row of the reservation id.
WithoutId(sheet, id) == SelectSeq(sheet, LAMBDA r : r.id # id)

\* C31: in bot2.py a cancel that found its reservation deletes exactly the row
\* of that reservation, whether the header is the first row of the sheet or
\* not.
C31_CancelDeletesMatched ==
    [][ (prog = "bot2.py" /\ reply'.op = "cancel" /\ reply'.res = "ok")
            => rows' = WithoutId(rows, reply'.hit) ]_vars

\* C32: in bot3, when no other flow appends between a flow's availability
\* check and its append and the sheet starts without an overlapping pair, no
\* two rows of the same seat and date overlap, whatever flows and cancels ran.
C32_SerialFlowsNoOverlap ==
    prog = "bot3" =>
        \A i \in 1..Len(rows) : \A j \in (i + 1)..Len(rows) :
            (rows[i].id # 0 /\ rows[j].id # 0 /\ rows[i].name = rows[j].name
                /\ rows[i].day = rows[j].day)
                => ~ has_overlap(rows[i].start, rows[i].end, rows[j].start, rows[j].end)

\* C32 witness: a flow has appended its row, a cancel has removed a stocked
\* row, and a later form found no free seat.
C32_Witness ==
    /\ prog = "bot3"
    /\ \E i \in 1..Len(rows) : rows[i].id > Len(Stocked)
    /\ Len(rows) <= Len(Stocked)
    /\ reply.op = "check" /\ reply.res = "NoSeat"

\* C33: in bot3 a cancel by key that succeeds removes exactly one row, and
\* that row carries the caller's (owner_id, resource, date, start, end) in the
\* sheet as it is at that moment, whatever handlers ran before and whether or
\* not a reminder tick is waiting for its send.
C33_CancelResolvesAndDeletesAtOnce ==
    [][ \A u \in Users, seat \in Seats, day \in Days, r \in CancelRequests :
            (CancelReservationModal_on_submit(u, seat, day, r[1], r[2]) /\ reply'.res = "ok")
                => /\ reply'.hit # 0
                   /\ \E i \in 1..Len(rows) :
                          /\ rows[i].id = reply'.hit
                          /\ KeyOf(rows[i]) = <<u, seat, day, r[1], r[2]>>
                   /\ rows' = WithoutId(rows, reply'.hit) ]_vars

\* C33 witness: a cancel by key has succeeded while a reminder tick was
\* waiting for its send.
C33_Witness ==
    /\ prog = "bot3" /\ reply.op = "cancel" /\ reply.res = "ok"
    /\ tick # <<>>

\* C34: with nothing touching the sheet between the fetch and the write, a
\* store call made with the index of a fetched pair acts on that pair's row:
\* delete_row removes it and moves every later row up by one, mark_reminded
\* sets its reminded cell and nothing else, the participants update sets its
\* participants cell and nothing else, in the column the reminder loop and the
\* listings read.
C34_FetchedIndexAddressesRow ==
    (probe.args # <<>> /\ probe.args[1] = "fetched" /\ probe.out # <<>>) =>
        LET before == probe.out[1]
            pair == probe.out[2]
            k == probe.args[3]
        IN  /\ before[k] = pair.row
            /\ probe.args[2] = "delete_row" =>
                   /\ Len(rows) = Len(before) - 1
                   /\ \A j \in 1..(k - 1) : rows[j] = before[j]
                   /\ \A j \in k..Len(rows) : rows[j] = before[j + 1]
            /\ probe.args[2] = "mark_reminded" =>
                   rows = [before EXCEPT ![k] = [pair.row EXCEPT !.reminded = TRUE]]
            /\ probe.args[2] = "update_participants" =>
                   /\ rows = [before EXCEPT ![k] = [pair.row EXCEPT !.parts = probe.args[4]]]
                   /\ ParticipantsColumnWritten(prog) = ParticipantsColumnRead(prog)

\* C34 witness: the first of two reservations was deleted at its fetched
\* index and the second moved up.
C34_Witness ==
    /\ probe.args # <<>> /\ probe.args[1] = "fetched" /\ probe.out # <<>>
    /\ probe.args[2] = "delete_row" /\ probe.args[3] = 1
    /\ Len(probe.out[1]) = 2 /\ probe.out[2].row.id # 0
    /\ rows = <<probe.out[1][2]>>

\* C35: confirming the cancel of a reservation that an earlier confirmation
\* has already removed deletes nothing: a cancel button built for a reservation
\* that is no longer in the sheet, and a cancel form whose key no row carries
\* any more, leave every row in place.
C35_SecondCancelRemovesNothing ==
    [][ /\ \A v \in cancelViews :
               (do_cancel(v) /\ v.target \notin IdsOf(rows)) => rows' = rows
        /\ \A u \in Users, seat \in Seats, day \in Days, r \in CancelRequests :
               ( /\ CancelReservationModal_on_submit(u, seat, day, r[1], r[2])
                 /\ \A i \in 1..Len(rows) : KeyOf(rows[i]) # <<u, seat, day, r[1], r[2]>> )
                   => rows' = rows ]_vars

\* C36: ensuring the header on a sheet whose first row is not the header
\* leaves the header in row 1 and loses no reservation: every reservation the
\* sheet held, the one stored in row 1 included, is still in the sheet.
C36_HeaderEnsuredWithoutLoss ==
    (probe.args = <<"ensure_header_row">> /\ probe.out # <<>>) =>
        /\ rows # <<>> /\ rows[1] = HeaderRow
        /\ IdsOf(probe.out[1]) \subseteq IdsOf(rows)

\* C37: recent_reservations(limit) returns, for every limit >= 0, the last
\* min(limit, n) of the n data rows, the newest first; with limit = 0 it returns
\* nothing.
C37_RecentIsLastLimitRows ==
    (probe.args # <<>> /\ probe.args[1] = "recent_reservations" /\ probe.out # <<>>) =>
        LET found == probe.out[1]
            n == Len(rows)
            m == Min(probe.args[2], n)
        IN  /\ Len(found) = m
            /\ \A k \in 1..m : found[k] = rows[n - k + 1]

\* C38: in bot1.py a reservation form is refused whenever the sheet holds a
\* reservation of the same channel and day whose range overlaps the requested
\* one, whatever the first row of the sheet is, and a search never adds a row
\* to a sheet that already has rows.
C38_Bot1RefusesOverlap ==
    [][ prog = "bot1.py" =>
          /\ rows # <<>> => probe'.out[2] = rows
          /\ \A u \in Users, seat \in Seats, day \in Days, r \in StoredSlots :
                 ( /\ ReservationModal_find(u, seat, day, r[1], r[2])
                   /\ \E i \in 1..Len(rows) :
                          /\ rows[i] # HeaderRow
                          /\ rows[i].name = seat /\ rows[i].day = day
                          /\ Max(rows[i].start, r[1]) < Min(rows[i].end, r[2]) )
                     => (reply'.res = "Unavailable" /\ Len(rows') = Len(rows)) ]_vars

====
